---- MODULE Spec2Model ----
(***************************************************************************)
(* A model of the Ants-vs-Bees engine: Place, Hive, AntColony and AntGame  *)
(* of src/src/game.ts and the insects of src/unnamed/part_000 (ants.ts).   *)
(*                                                                         *)
(* Objects are modelled by value.  A cell of the grid is the pair          *)
(* <<tunnel, step>>; the queen's Place and the Hive keep their bees in     *)
(* queenBees and hiveBees.  An ant is the record of its fields and lives   *)
(* in the slot (ant or guard) of the Place it was added to; a bee is the   *)
(* record of its fields and lives in the bees array of its Place (a cell,  *)
(* the queen's Place, the Hive or an Eater's stomach).  JavaScript's       *)
(* undefined is the string "undefined" for a boost, a status or a return   *)
(* value, NoAnt for an empty slot and NoPlace for a missing Place.         *)
(***************************************************************************)
EXTENDS Integers, Sequences, FiniteSets, TLC

VARIABLES
  numTunnels,     \* AntColony constructor: number of tunnels (rows)
  tunnelLength,   \* AntColony constructor: Places per tunnel (columns)
  moatFrequency,  \* AntColony constructor: every moatFrequency'th Place is water
  startingFood,   \* AntColony constructor: the food the colony starts with
  beeArmor,       \* Hive.beeArmor
  beeDamage,      \* Hive.beeDamage
  food,           \* AntColony.food
  boosts,         \* AntColony.boosts
  ant,            \* Place.ant of every cell
  guard,          \* Place.guard of every cell
  bees,           \* Place.bees of every cell
  queenBees,      \* Place.bees of AntColony.queenPlace
  hiveBees,       \* Place.bees of the Hive
  waves,          \* Hive.waves: attackTurn -> ids of the wave's bees
  nextBee,        \* number of Bee objects created so far (ids 1..nextBee)
  turn,           \* AntGame.turn
  antActs,        \* the act() calls of the last antsAct, in order
  beeActs         \* the act() calls of the last beesAct, in order

config == <<numTunnels, tunnelLength, moatFrequency, startingFood, beeArmor, beeDamage>>
colony == <<food, boosts, ant, guard, bees, queenBees>>
hive == <<hiveBees, waves, nextBee>>
vars == <<config, colony, hive, turn, antActs, beeActs>>

----------------------------------------------------------------------------
(* Bounds of the model *)

\* The driver of Spec calls takeTurn at most MaxTurn times.
MaxTurn == 2
\* The driver of Spec has addWave create at most MaxBees bees.
MaxBees == 1

----------------------------------------------------------------------------
(* Values *)

NoAnt == [type |-> "undefined", armor |-> 0, boost |-> "undefined",
          turnsEating |-> 0, stomach |-> <<>>]

NoPlace == <<0 - 1, 0 - 1>>

\* new GrowerAnt(): super(1,1)
GrowerAnt == [type |-> "Grower", armor |-> 1, boost |-> "undefined",
              turnsEating |-> 0, stomach |-> <<>>]
\* new ThrowerAnt(): super(1,4)
ThrowerAnt == [type |-> "Thrower", armor |-> 1, boost |-> "undefined",
               turnsEating |-> 0, stomach |-> <<>>]
\* new EaterAnt(): super(2,4), turnsEating = 0, stomach = new Place
EaterAnt == [type |-> "Eater", armor |-> 2, boost |-> "undefined",
             turnsEating |-> 0, stomach |-> <<>>]
\* new ScubaAnt(): super(1,5)
ScubaAnt == [type |-> "Scuba", armor |-> 1, boost |-> "undefined",
             turnsEating |-> 0, stomach |-> <<>>]
\* new GuardAnt(): super(2,4)
GuardAnt == [type |-> "Guard", armor |-> 2, boost |-> "undefined",
             turnsEating |-> 0, stomach |-> <<>>]

\* Ant.getFoodCost(): the foodCost given to super() by each constructor
getFoodCost(a) ==
  CASE a.type = "Grower" -> 1
    [] a.type = "Thrower" -> 4
    [] a.type = "Eater" -> 4
    [] a.type = "Scuba" -> 5
    [] a.type = "Guard" -> 4

\* new Bee(armor, damage, place): status is undefined
NewBee(id) == [id |-> id, armor |-> beeArmor, status |-> "undefined"]

\* AntColony.places: the cells, tunnel by tunnel
Cells == (0 .. numTunnels - 1) \X (0 .. tunnelLength - 1)

\* The order of the nested loops over places[i][j]
RECURSIVE CellsFrom(_, _)
CellsFrom(i, j) ==
  IF i >= numTunnels THEN <<>>
  ELSE IF j >= tunnelLength THEN CellsFrom(i + 1, 0)
  ELSE <<(<<i, j>>)>> \o CellsFrom(i, j + 1)

CellOrder == CellsFrom(0, 0)

\* Place.isWater(), as the AntColony constructor sets it
isWater(c) == moatFrequency # 0 /\ (c[2] + 1) % moatFrequency = 0

\* AntColony.beeEntrances: the rightmost cell of every tunnel
getEntrances == [i \in 1 .. numTunnels |-> <<i - 1, tunnelLength - 1>>]

BoostNames == {"FlyingLeaf", "StickyLeaf", "IcyLeaf", "BugSpray"}

\* The world the sweeps of a turn work on
World ==
  [food |-> food, boosts |-> boosts, ant |-> ant, guard |-> guard,
   bees |-> bees, queenBees |-> queenBees, hiveBees |-> hiveBees,
   antActs |-> <<>>, beeActs |-> <<>>]

----------------------------------------------------------------------------
(* Place *)

\* Place.getAnt(): the guard if there is one, else the ant
getAnt(w, c) == IF w.guard[c] # NoAnt THEN w.guard[c] ELSE w.ant[c]

\* Place.getGuardedAnt()
getGuardedAnt(w, c) == w.ant[c]

\* Faulty variant of getClosestBee: the search stops one Place early
getClosestBeeShort(bs, c, maxDistance, minDistance) ==
  IF \E d \in minDistance .. maxDistance - 1 :
       c[2] + d < tunnelLength /\ Len(bs[<<c[1], c[2] + d>>]) > 0
  THEN LET d == CHOOSE d \in minDistance .. maxDistance - 1 :
                  /\ c[2] + d < tunnelLength /\ Len(bs[<<c[1], c[2] + d>>]) > 0
                  /\ \A e \in minDistance .. d - 1 : Len(bs[<<c[1], c[2] + e>>]) = 0
       IN <<c[1], c[2] + d>>
  ELSE NoPlace

\* Place.getClosestBee(): the Place of the bee found (the bee is the first
\* of its bees), NoPlace when the result is undefined
RECURSIVE ClosestFrom(_, _, _, _, _)
ClosestFrom(bs, p, dist, maxDistance, minDistance) ==
  IF p[2] >= tunnelLength \/ dist > maxDistance THEN NoPlace
  ELSE IF dist >= minDistance /\ Len(bs[p]) > 0 THEN p
  ELSE ClosestFrom(bs, <<p[1], p[2] + 1>>, dist + 1, maxDistance, minDistance)

getClosestBee(bs, c, maxDistance, minDistance) ==
  ClosestFrom(bs, c, 0, maxDistance, minDistance)

\* Faulty variant of CanAddAnt: the slot is never checked
CanAddAntAlways(w, c, a) == TRUE

\* Faulty variant of CanAddAnt: the slot kinds are not told apart
CanAddAntAnySlot(w, c, a) == w.guard[c] = NoAnt \/ w.ant[c] = NoAnt

\* Place.addAnt(): whether the ant was added
CanAddAnt(w, c, a) ==
  IF a.type = "Guard" THEN w.guard[c] = NoAnt ELSE w.ant[c] = NoAnt

\* Place.addAnt(): the Place after a successful add
addAnt(w, c, a) ==
  IF a.type = "Guard" THEN [w EXCEPT !.guard[c] = a] ELSE [w EXCEPT !.ant[c] = a]

\* Place.removeAnt(): the guard first if present, else the ant
removeAnt(w, c) ==
  IF w.guard[c] # NoAnt THEN [w EXCEPT !.guard[c] = NoAnt]
  ELSE [w EXCEPT !.ant[c] = NoAnt]

\* Array.splice(index, 1) at the 1-based position i
RemoveAt(s, i) == SubSeq(s, 1, i - 1) \o SubSeq(s, i + 1, Len(s))

\* Array.indexOf(bee) by object identity: the 1-based position, 0 for -1
IndexOf(s, id) ==
  IF \E k \in 1 .. Len(s) : s[k].id = id
  THEN CHOOSE k \in 1 .. Len(s) : s[k].id = id /\ \A j \in 1 .. k - 1 : s[j].id # id
  ELSE 0

\* Place.removeBee() on a bees array
removeBee(s, id) == IF IndexOf(s, id) > 0 THEN RemoveAt(s, IndexOf(s, id)) ELSE s

\* Place.addBee() on a bees array
addBee(s, b) == Append(s, b)

----------------------------------------------------------------------------
(* Insects *)

\* Faulty variant of BeeReduceArmor: a bee with armor 0 stays on its Place
BeeReduceArmorLate(w, p, amount) ==
  LET b == Head(w.bees[p])
      armor == b.armor - amount
  IN IF armor < 0
     THEN [w EXCEPT !.bees[p] = removeBee(@, b.id)]
     ELSE [w EXCEPT !.bees[p][1].armor = armor]

\* Insect.reduceArmor() of the first bee of cell p
BeeReduceArmor(w, p, amount) ==
  LET b == Head(w.bees[p])
      armor == b.armor - amount
  IN IF armor <= 0
     THEN [w EXCEPT !.bees[p] = removeBee(@, b.id)]        \* Place.removeInsect
     ELSE [w EXCEPT !.bees[p][1].armor = armor]

\* Bee.setStatus() of the bee id, which was the first bee of cell p: a bee
\* that has left the cell is referenced by no Place
setStatus(w, p, id, status) ==
  IF Len(w.bees[p]) > 0 /\ Head(w.bees[p]).id = id
  THEN [w EXCEPT !.bees[p][1].status = status]
  ELSE w

\* Insect.reduceArmor() of the ant in the slot ("ant" or "guard") of cell c:
\* a dead insect calls place.removeInsect(this), which for an Ant is
\* Place.removeAnt()
InsectReduceArmor(w, c, slot, amount) ==
  LET w1 == IF slot = "guard"
            THEN [w EXCEPT !.guard[c].armor = @ - amount]
            ELSE [w EXCEPT !.ant[c].armor = @ - amount]
      armor == IF slot = "guard" THEN w1.guard[c].armor ELSE w1.ant[c].armor
  IN IF armor <= 0 THEN removeAnt(w1, c) ELSE w1

\* Faulty variant of EaterReduceArmor: an Eater that dies keeps its bee
EaterReduceArmorDies(w, c, amount) ==
  LET e == w.ant[c]
      armor == e.armor - amount
      w1 == [w EXCEPT !.ant[c].armor = armor]
      coughed == [w1 EXCEPT !.ant[c].stomach = removeBee(@, Head(e.stomach).id),
                            !.bees[c] = addBee(@, Head(e.stomach))]
  IN IF armor > 0
     THEN IF e.turnsEating = 1
          THEN [coughed EXCEPT !.ant[c].turnsEating = 3]
          ELSE w1
     ELSE InsectReduceArmor(w1, c, "ant", amount)

\* Faulty variant of EaterReduceArmor: a damaged Eater that lives keeps its bee
EaterReduceArmorKeeps(w, c, amount) ==
  LET e == w.ant[c]
      armor == e.armor - amount
      w1 == [w EXCEPT !.ant[c].armor = armor]
      coughed == [w1 EXCEPT !.ant[c].stomach = removeBee(@, Head(e.stomach).id),
                            !.bees[c] = addBee(@, Head(e.stomach))]
  IN IF armor > 0
     THEN w1
     ELSE IF e.turnsEating > 0 /\ e.turnsEating <= 2
          THEN InsectReduceArmor(coughed, c, "ant", amount)
          ELSE InsectReduceArmor(w1, c, "ant", amount)

\* EaterAnt.reduceArmor() of the Eater in the ant slot of cell c
EaterReduceArmor(w, c, amount) ==
  LET e == w.ant[c]
      armor == e.armor - amount
      w1 == [w EXCEPT !.ant[c].armor = armor]
      coughed == [w1 EXCEPT !.ant[c].stomach = removeBee(@, Head(e.stomach).id),
                            !.bees[c] = addBee(@, Head(e.stomach))]
  IN IF armor > 0
     THEN IF e.turnsEating = 1
          THEN [coughed EXCEPT !.ant[c].turnsEating = 3]
          ELSE w1
     ELSE IF e.turnsEating > 0 /\ e.turnsEating <= 2
          THEN InsectReduceArmor(coughed, c, "ant", amount)
          ELSE InsectReduceArmor(w1, c, "ant", amount)

\* ant.reduceArmor(amount) by dynamic dispatch
AntReduceArmor(w, c, slot, amount) ==
  IF slot = "ant" /\ w.ant[c].type = "Eater"
  THEN EaterReduceArmor(w, c, amount)
  ELSE InsectReduceArmor(w, c, slot, amount)

\* AntColony.increaseFood()
increaseFood(w, amount) == [w EXCEPT !.food = @ + amount]

\* AntColony.addBoost(): every name a Grower adds is a key of boosts already
addBoost(w, boost) == [w EXCEPT !.boosts[boost] = @ + 1]

\* The outcomes of Math.random() that GrowerAnt.act() tells apart
Rolls == {"food", "FlyingLeaf", "StickyLeaf", "IcyLeaf", "BugSpray", "nothing"}

\* Faulty variant of GrowerAct: a Grower that finds a boost finds food too
GrowerActBoth(w, c, roll) ==
  IF roll = "food" THEN increaseFood(w, 1)
  ELSE IF roll \in BoostNames THEN increaseFood(addBoost(w, roll), 1)
  ELSE w

\* GrowerAnt.act() with the given roll
GrowerAct(w, c, roll) ==
  IF roll = "food" THEN increaseFood(w, 1)
  ELSE IF roll \in BoostNames THEN addBoost(w, roll)
  ELSE w

\* Faulty variant of SprayLoop: an if in place of the while
SprayLoopOnce(w, c) ==
  IF getClosestBee(w.bees, c, 0, 0) = NoPlace THEN w
  ELSE BeeReduceArmor(w, c, 10)

\* The while loop of the BugSpray branch: 10 damage to the first bee of the
\* cell until the cell has no bee
RECURSIVE SprayLoop(_, _)
SprayLoop(w, c) ==
  IF getClosestBee(w.bees, c, 0, 0) = NoPlace THEN w
  ELSE SprayLoop(BeeReduceArmor(w, c, 10), c)

\* Faulty variant of ThrowerAct: the boost is cleared after the search,
\* target or not
ThrowerActClears(w, c) ==
  LET boost == w.ant[c].boost
      target == IF boost = "FlyingLeaf"
                THEN getClosestBee(w.bees, c, 5, 0)
                ELSE getClosestBee(w.bees, c, 3, 0)
      id == Head(w.bees[target]).id
      hit == BeeReduceArmor(w, target, 1)
      stuck == IF boost = "StickyLeaf" THEN setStatus(hit, target, id, "stuck") ELSE hit
      cold == IF boost = "IcyLeaf" THEN setStatus(stuck, target, id, "cold") ELSE stuck
  IN IF boost # "BugSpray"
     THEN IF target # NoPlace
          THEN [cold EXCEPT !.ant[c].boost = "undefined"]
          ELSE [w EXCEPT !.ant[c].boost = "undefined"]
     ELSE InsectReduceArmor(SprayLoop(w, c), c, "ant", 10)

\* ThrowerAnt.act() of the Thrower in the ant slot of cell c
ThrowerAct(w, c) ==
  LET boost == w.ant[c].boost
      target == IF boost = "FlyingLeaf"
                THEN getClosestBee(w.bees, c, 5, 0)
                ELSE getClosestBee(w.bees, c, 3, 0)
      id == Head(w.bees[target]).id
      hit == BeeReduceArmor(w, target, 1)
      stuck == IF boost = "StickyLeaf" THEN setStatus(hit, target, id, "stuck") ELSE hit
      cold == IF boost = "IcyLeaf" THEN setStatus(stuck, target, id, "cold") ELSE stuck
  IN IF boost # "BugSpray"
     THEN IF target # NoPlace
          THEN [cold EXCEPT !.ant[c].boost = "undefined"]
          ELSE w
     ELSE InsectReduceArmor(SprayLoop(w, c), c, "ant", 10)

\* ScubaAnt.act() of the Scuba in the ant slot of cell c
ScubaAct(w, c) ==
  LET boost == w.ant[c].boost
      target == IF boost = "FlyingLeaf"
                THEN getClosestBee(w.bees, c, 5, 0)
                ELSE getClosestBee(w.bees, c, 3, 0)
      id == Head(w.bees[target]).id
      hit == BeeReduceArmor(w, target, 1)
      stuck == IF boost = "StickyLeaf" THEN setStatus(hit, target, id, "stuck") ELSE hit
      cold == IF boost = "IcyLeaf" THEN setStatus(stuck, target, id, "cold") ELSE stuck
  IN IF boost # "BugSpray"
     THEN IF target # NoPlace
          THEN [cold EXCEPT !.ant[c].boost = "undefined"]
          ELSE w
     ELSE InsectReduceArmor(SprayLoop(w, c), c, "ant", 10)

\* Faulty variant of EaterAct: the stomach is emptied one act earlier
EaterActEarly(w, c) ==
  LET e == w.ant[c]
      target == getClosestBee(w.bees, c, 0, 0)
  IN IF e.turnsEating = 0
     THEN IF target # NoPlace
          THEN [w EXCEPT !.bees[c] = removeBee(@, Head(w.bees[c]).id),
                         !.ant[c].stomach = addBee(@, Head(w.bees[c])),
                         !.ant[c].turnsEating = 1]
          ELSE w
     ELSE IF e.turnsEating > 2
          THEN [w EXCEPT !.ant[c].stomach =
                           IF Len(@) > 0 THEN removeBee(@, Head(@).id) ELSE @,
                         !.ant[c].turnsEating = 0]
          ELSE [w EXCEPT !.ant[c].turnsEating = @ + 1]

\* Faulty variant of EaterAct: the bee released from the stomach goes back
\* to the cell
EaterActSpits(w, c) ==
  LET e == w.ant[c]
      target == getClosestBee(w.bees, c, 0, 0)
  IN IF e.turnsEating = 0
     THEN IF target # NoPlace
          THEN [w EXCEPT !.bees[c] = removeBee(@, Head(w.bees[c]).id),
                         !.ant[c].stomach = addBee(@, Head(w.bees[c])),
                         !.ant[c].turnsEating = 1]
          ELSE w
     ELSE IF e.turnsEating > 3
          THEN [w EXCEPT !.ant[c].stomach = <<>>,
                         !.bees[c] = @ \o e.stomach,
                         !.ant[c].turnsEating = 0]
          ELSE [w EXCEPT !.ant[c].turnsEating = @ + 1]

\* EaterAnt.act() of the Eater in the ant slot of cell c
EaterAct(w, c) ==
  LET e == w.ant[c]
      target == getClosestBee(w.bees, c, 0, 0)
  IN IF e.turnsEating = 0
     THEN IF target # NoPlace
          THEN [w EXCEPT !.bees[c] = removeBee(@, Head(w.bees[c]).id),
                         !.ant[c].stomach = addBee(@, Head(w.bees[c])),
                         !.ant[c].turnsEating = 1]
          ELSE w
     ELSE IF e.turnsEating > 3
          THEN [w EXCEPT !.ant[c].stomach =
                           IF Len(@) > 0 THEN removeBee(@, Head(@).id) ELSE @,
                         !.ant[c].turnsEating = 0]
          ELSE [w EXCEPT !.ant[c].turnsEating = @ + 1]

\* GuardAnt.act()
GuardAct(w, c) == w

\* ant.act(colony) by dynamic dispatch, for the ant that getAllAnts or
\* getGuarded found in the slot of cell c (a GuardAnt for the guard slot,
\* which its guarded ant's act may have emptied since); the call is recorded
\* in antActs
AntAct(w, c, slot, rolls) ==
  LET logged == [w EXCEPT !.antActs = Append(@, <<c, slot>>)]
      type == IF slot = "guard" THEN "Guard" ELSE w.ant[c].type
  IN CASE type = "Grower" -> GrowerAct(logged, c, rolls[c])
       [] type = "Thrower" -> ThrowerAct(logged, c)
       [] type = "Scuba" -> ScubaAct(logged, c)
       [] type = "Eater" -> EaterAct(logged, c)
       [] type = "Guard" -> GuardAct(logged, c)

\* Faulty variant of isBlocked: an ant never blocks a bee
isBlockedNever(w, c) == FALSE

\* Bee.isBlocked()
isBlocked(w, c) == getAnt(w, c) # NoAnt

\* Faulty variant of sting: the sting does no damage
stingHarmless(w, c) ==
  AntReduceArmor(w, c, IF w.guard[c] # NoAnt THEN "guard" ELSE "ant", 0)

\* Faulty variant of sting: the bee stings the ant of the ant slot
stingBelow(w, c) ==
  AntReduceArmor(w, c, IF w.ant[c] # NoAnt THEN "ant" ELSE "guard", beeDamage)

\* Bee.sting(this.place.getAnt())
sting(w, c) ==
  AntReduceArmor(w, c, IF w.guard[c] # NoAnt THEN "guard" ELSE "ant", beeDamage)

\* Place.getExit(): the queen's Place for the first cell of a tunnel
getExit(c) == IF c[2] = 0 THEN NoPlace ELSE <<c[1], c[2] - 1>>

\* Place.exitBee()
exitBee(w, c, id) ==
  LET b == w.bees[c][IndexOf(w.bees[c], id)]
      left == [w EXCEPT !.bees[c] = removeBee(@, id)]
  IN IF getExit(c) = NoPlace
     THEN [left EXCEPT !.queenBees = addBee(@, b)]
     ELSE [left EXCEPT !.bees[getExit(c)] = addBee(@, b)]

\* Faulty variant of ClearStatus: the status stays
ClearStatusNever(w, id) == w

\* this.status = undefined, for the bee id wherever its Place is
ClearStatus(w, id) ==
  LET clear(s) == IF IndexOf(s, id) > 0
                  THEN [s EXCEPT ![IndexOf(s, id)].status = "undefined"]
                  ELSE s
  IN [w EXCEPT !.bees = [p \in Cells |-> clear(w.bees[p])],
               !.queenBees = clear(w.queenBees)]

\* Faulty variant of BeeAct: a blocked bee that is cold walks on
BeeActColdMoves(w, c, id) ==
  LET b == w.bees[c][IndexOf(w.bees[c], id)]
      logged == [w EXCEPT !.beeActs = Append(@, id)]
      acted == IF isBlocked(w, c) /\ b.status # "cold"
               THEN sting(logged, c)
               ELSE IF b.armor > 0
                    THEN IF b.status # "stuck" THEN exitBee(logged, c, id) ELSE logged
                    ELSE logged
  IN ClearStatus(acted, id)

\* Bee.act() of the bee id, whose Place is cell c; the call is recorded in
\* beeActs
BeeAct(w, c, id) ==
  LET b == w.bees[c][IndexOf(w.bees[c], id)]
      logged == [w EXCEPT !.beeActs = Append(@, id)]
      acted == IF isBlocked(w, c)
               THEN IF b.status # "cold" THEN sting(logged, c) ELSE logged
               ELSE IF b.armor > 0
                    THEN IF b.status # "stuck" THEN exitBee(logged, c, id) ELSE logged
                    ELSE logged
  IN ClearStatus(acted, id)

\* Faulty variant of PlaceAct: the second removal is skipped when a guard
\* was removed
PlaceActOnce(w, c) ==
  LET w1 == IF w.guard[c] # NoAnt
            THEN removeAnt(w, c)
            ELSE IF w.ant[c].type # "Scuba" THEN removeAnt(w, c) ELSE w
  IN IF isWater(c) THEN w1 ELSE w

\* Place.act()
PlaceAct(w, c) ==
  LET w1 == IF w.guard[c] # NoAnt THEN removeAnt(w, c) ELSE w
      w2 == IF w1.ant[c].type # "Scuba" THEN removeAnt(w1, c) ELSE w1
  IN IF isWater(c) THEN w2 ELSE w

----------------------------------------------------------------------------
(* AntColony and Hive *)

\* Faulty variant of getAllAnts: the list holds the occupants of both slots
RECURSIVE AllSlotsFrom(_, _)
AllSlotsFrom(w, i) ==
  IF i > Len(CellOrder) THEN <<>>
  ELSE LET c == CellOrder[i]
       IN (IF w.ant[c] # NoAnt THEN <<(<<c, "ant">>)>> ELSE <<>>)
          \o (IF w.guard[c] # NoAnt THEN <<(<<c, "guard">>)>> ELSE <<>>)
          \o AllSlotsFrom(w, i + 1)

getAllAntsBothSlots(w) == AllSlotsFrom(w, 1)

\* AntColony.getAllAnts(): getAnt() of every cell that has one, as the cell
\* and the slot of the ant
RECURSIVE AllAntsFrom(_, _)
AllAntsFrom(w, i) ==
  IF i > Len(CellOrder) THEN <<>>
  ELSE LET c == CellOrder[i]
       IN (IF getAnt(w, c) # NoAnt
           THEN <<(<<c, IF w.guard[c] # NoAnt THEN "guard" ELSE "ant">>)>>
           ELSE <<>>) \o AllAntsFrom(w, i + 1)

getAllAnts(w) == AllAntsFrom(w, 1)

\* AntColony.getAllBees(): the bees of every cell, as the cell and the id
RECURSIVE AllBeesFrom(_, _)
AllBeesFrom(w, i) ==
  IF i > Len(CellOrder) THEN <<>>
  ELSE LET c == CellOrder[i]
       IN [k \in 1 .. Len(w.bees[c]) |-> <<c, w.bees[c][k].id>>] \o AllBeesFrom(w, i + 1)

\* Faulty variant of getAllBees: the list is built from the last cell back
getAllBeesBackwards(w) ==
  LET list == AllBeesFrom(w, 1)
  IN [k \in 1 .. Len(list) |-> list[Len(list) + 1 - k]]

getAllBees(w) == AllBeesFrom(w, 1)

\* The forEach of AntColony.antsAct() from the i-th ant of the list on
RECURSIVE AntsActFrom(_, _, _, _)
AntsActFrom(w, ants, i, rolls) ==
  IF i > Len(ants) THEN w
  ELSE LET c == ants[i][1]
           slot == ants[i][2]
           guarded == IF slot = "guard" /\ getGuardedAnt(w, c) # NoAnt
                      THEN AntAct(w, c, "ant", rolls)
                      ELSE w
       IN AntsActFrom(AntAct(guarded, c, slot, rolls), ants, i + 1, rolls)

\* AntColony.antsAct()
antsAct(w, rolls) == AntsActFrom(w, getAllAnts(w), 1, rolls)

\* The forEach of AntColony.beesAct() from the i-th bee of the list on
RECURSIVE BeesActFrom(_, _, _)
BeesActFrom(w, list, i) ==
  IF i > Len(list) THEN w
  ELSE BeesActFrom(BeeAct(w, list[i][1], list[i][2]), list, i + 1)

\* AntColony.beesAct()
beesAct(w) == BeesActFrom(w, getAllBees(w), 1)

\* The loops of AntColony.placesAct() from the i-th cell on
RECURSIVE PlacesActFrom(_, _)
PlacesActFrom(w, i) ==
  IF i > Len(CellOrder) THEN w
  ELSE PlacesActFrom(PlaceAct(w, CellOrder[i]), i + 1)

\* AntColony.placesAct()
placesAct(w) == PlacesActFrom(w, 1)

\* The forEach of Hive.invade() from the i-th bee of the wave on;
\* entrance[i] is the entrance Math.random() picks for the i-th bee.  A bee
\* of waves[currentTurn] is in the Hive when invade runs, since takeTurn
\* calls invade once for every turn number.
RECURSIVE InvadeFrom(_, _, _, _)
InvadeFrom(w, wave, i, entrance) ==
  IF i > Len(wave) THEN w
  ELSE LET k == IndexOf(w.hiveBees, wave[i])
       IN IF k = 0 THEN InvadeFrom(w, wave, i + 1, entrance)
          ELSE InvadeFrom(
                 [w EXCEPT !.hiveBees = removeBee(@, wave[i]),
                           !.bees[getEntrances[entrance[i]]] = addBee(@, w.hiveBees[k])],
                 wave, i + 1, entrance)

\* this.waves[currentTurn], the empty list when it is undefined
WaveOf(currentTurn) ==
  IF currentTurn \in DOMAIN waves THEN waves[currentTurn] ELSE <<>>

\* Hive.invade()
invade(w, currentTurn, entrance) == InvadeFrom(w, WaveOf(currentTurn), 1, entrance)

\* Faulty variant of ColonyDeployResult: the Place is tried before the food
ColonyDeployResultPlaceFirst(a, c) ==
  IF ~CanAddAnt(World, c, a) THEN "tunnel already occupied"
  ELSE IF food >= getFoodCost(a) THEN "undefined"
  ELSE "not enough food"

\* AntColony.deployAnt(): what it returns for a Place that exists
ColonyDeployResult(a, c) ==
  IF food >= getFoodCost(a)
  THEN IF CanAddAnt(World, c, a) THEN "undefined" ELSE "tunnel already occupied"
  ELSE "not enough food"

\* AntColony.applyBoost(): what it returns when the boost check passes
HasBoost(boost) == boost \in DOMAIN boosts /\ boosts[boost] >= 1

\* AntColony.queenHasBees()
queenHasBees == Len(queenBees) > 0

\* Faulty variant of gameIsWon: the win is checked before the loss
gameIsWonWinFirst ==
  IF Len(getAllBees(World)) + Len(hiveBees) = 0 THEN "true"
  ELSE IF queenHasBees THEN "false"
  ELSE "undefined"

\* AntGame.gameIsWon(): "false", "true" or "undefined"
gameIsWon ==
  IF queenHasBees THEN "false"
  ELSE IF Len(getAllBees(World)) + Len(hiveBees) = 0 THEN "true"
  ELSE "undefined"

----------------------------------------------------------------------------
(* The driver's inputs *)

\* Ant type names a driver may pass to AntGame.deployAnt()
AntTypeInputs == {"Grower", "thrower", "Eater", "scuba", "GUARD", "queen"}

\* String.toLowerCase() on the ant type names
toLowerCase(s) ==
  CASE s = "Grower" -> "grower"
    [] s = "Eater" -> "eater"
    [] s = "GUARD" -> "guard"
    [] OTHER -> s

\* The switch of AntGame.deployAnt(): the ant constructed, NoAnt for default
NewAnt(antType) ==
  CASE toLowerCase(antType) = "grower" -> GrowerAnt
    [] toLowerCase(antType) = "thrower" -> ThrowerAnt
    [] toLowerCase(antType) = "eater" -> EaterAnt
    [] toLowerCase(antType) = "scuba" -> ScubaAnt
    [] toLowerCase(antType) = "guard" -> GuardAnt
    [] OTHER -> NoAnt

\* Boost names a driver may pass to AntGame.boostAnt()
BoostInputs == BoostNames \cup {"Honey"}

\* placeCoordinates.split(','): a coordinate string is modelled by its
\* tokens, each the array index it denotes (0 - 1 for a token that is no
\* index of any array)
CoordInputs ==
  {<<c[1], c[2]>> : c \in Cells}
    \cup {<<numTunnels, 0>>, <<0, tunnelLength>>, <<0>>, <<0 - 1, 0>>}

\* The coordinate strings that name a cell of the grid
CellCoords == {coords \in CoordInputs : coords \in Cells}

\* The ant type names the switch of AntGame.deployAnt() knows
KnownAntTypes == {antType \in AntTypeInputs : NewAnt(antType) # NoAnt}

\* getPlaces()[coords[0]] is undefined, so indexing it throws
RowThrows(coords) == coords[1] \notin 0 .. numTunnels - 1

\* getPlaces()[coords[0]][coords[1]]: the Place, NoPlace for undefined
PlaceAt(coords) ==
  IF Len(coords) >= 2 /\ coords[2] \in 0 .. tunnelLength - 1
  THEN <<coords[1], coords[2]>>
  ELSE NoPlace

----------------------------------------------------------------------------
(* AntGame: the calls of the driver *)

\* AntGame.deployAnt(): what it returns
DeployResult(antType, coords) ==
  IF NewAnt(antType) = NoAnt THEN "unknown ant type"
  ELSE IF RowThrows(coords) THEN "illegal location"
  ELSE IF PlaceAt(coords) = NoPlace
       THEN IF food >= getFoodCost(NewAnt(antType))
            THEN "illegal location"        \* place.addAnt throws
            ELSE "not enough food"
       ELSE ColonyDeployResult(NewAnt(antType), PlaceAt(coords))

\* AntGame.deployAnt(antType, placeCoordinates)
DeployAnt(antType, coords) ==
  LET result == DeployResult(antType, coords)
      a == NewAnt(antType)
      w == addAnt(World, PlaceAt(coords), a)
  IN /\ UNCHANGED <<antActs, beeActs, config, boosts, bees, queenBees, hive, turn>>
     /\ IF result = "undefined"
        THEN /\ ant' = w.ant
             /\ guard' = w.guard
             /\ food' = food - getFoodCost(a)
        ELSE UNCHANGED <<ant, guard, food>>

\* AntGame.removeAnt(): what it returns
RemoveResult(coords) ==
  IF RowThrows(coords) \/ PlaceAt(coords) = NoPlace
  THEN "illegal location"
  ELSE "undefined"

\* AntGame.removeAnt(placeCoordinates)
RemoveAnt(coords) ==
  LET result == RemoveResult(coords)
      w == removeAnt(World, PlaceAt(coords))
  IN /\ UNCHANGED <<antActs, beeActs, config, food, boosts, bees, queenBees, hive, turn>>
     /\ IF result = "undefined"
        THEN ant' = w.ant /\ guard' = w.guard
        ELSE UNCHANGED <<ant, guard>>

\* Faulty variant of BoostResult: the ant is looked for before the inventory
BoostResultAntFirst(boostType, coords) ==
  IF RowThrows(coords) \/ PlaceAt(coords) = NoPlace THEN "illegal location"
  ELSE IF getAnt(World, PlaceAt(coords)) = NoAnt THEN "no Ant at location"
  ELSE IF ~HasBoost(boostType) THEN "no such boost"
  ELSE "undefined"

\* AntGame.boostAnt() with AntColony.applyBoost(): what it returns
BoostResult(boostType, coords) ==
  IF RowThrows(coords) THEN "illegal location"
  ELSE IF ~HasBoost(boostType) THEN "no such boost"
  ELSE IF PlaceAt(coords) = NoPlace THEN "illegal location"   \* place.getAnt throws
  ELSE IF getAnt(World, PlaceAt(coords)) = NoAnt THEN "no Ant at location"
  ELSE "undefined"

\* Faulty variant of setBoost: the boost goes to the guarded ant when there
\* is one
setBoostGuarded(w, c, boost) ==
  IF w.ant[c] # NoAnt
  THEN [w EXCEPT !.ant[c].boost = boost]
  ELSE [w EXCEPT !.guard[c].boost = boost]

\* Ant.setBoost() on place.getAnt()
setBoost(w, c, boost) ==
  IF w.guard[c] # NoAnt
  THEN [w EXCEPT !.guard[c].boost = boost]
  ELSE [w EXCEPT !.ant[c].boost = boost]

\* AntGame.boostAnt(boostType, placeCoordinates)
BoostAnt(boostType, coords) ==
  LET result == BoostResult(boostType, coords)
      w == setBoost(World, PlaceAt(coords), boostType)
  IN /\ UNCHANGED <<antActs, beeActs, config, food, boosts, bees, queenBees, hive, turn>>
     /\ IF result = "undefined"
        THEN ant' = w.ant /\ guard' = w.guard
        ELSE UNCHANGED <<ant, guard>>

\* Faulty variant of AddWave: a second wave for a turn joins the first
AddWaveJoins(attackTurn, numBees) ==
  LET wave == [i \in 1 .. numBees |-> nextBee + i]
  IN /\ hiveBees' = hiveBees \o [i \in 1 .. numBees |-> NewBee(nextBee + i)]
     /\ waves' = [t \in DOMAIN waves \cup {attackTurn} |->
                    IF t = attackTurn THEN WaveOf(t) \o wave ELSE waves[t]]
     /\ nextBee' = nextBee + numBees
     /\ UNCHANGED <<config, colony, turn, antActs, beeActs>>

\* Hive.addWave(attackTurn, numBees)
AddWave(attackTurn, numBees) ==
  LET wave == [i \in 1 .. numBees |-> nextBee + i]
  IN /\ hiveBees' = hiveBees \o [i \in 1 .. numBees |-> NewBee(nextBee + i)]
     /\ waves' = [t \in DOMAIN waves \cup {attackTurn} |->
                    IF t = attackTurn THEN wave ELSE waves[t]]
     /\ nextBee' = nextBee + numBees
     /\ UNCHANGED <<config, colony, turn, antActs, beeActs>>

\* new AntGame(colony, hive) has not been given a command: the Hive gets its
\* waves before the game is built from it
BeforeGame ==
  /\ turn = 0
  /\ food = startingFood
  /\ \A c \in Cells : ant[c] = NoAnt /\ guard[c] = NoAnt

\* The cells whose Grower draws a random number in antsAct
GrowerCells == {c \in Cells : ant[c].type = "Grower"}

\* Faulty variant of takeTurn: the Hive invades before the sweeps
takeTurnInvadeFirst(rolls, entrance) ==
  LET w == invade(World, turn, entrance)
  IN placesAct(beesAct(antsAct(w, rolls)))

\* The calls of AntGame.takeTurn() before this.turn++
takeTurn(rolls, entrance) ==
  invade(placesAct(beesAct(antsAct(World, rolls))), turn, entrance)

\* AntGame.takeTurn()
TakeTurn ==
  /\ \E rolls \in [GrowerCells -> Rolls],
        entrance \in [1 .. Len(WaveOf(turn)) -> 1 .. numTunnels] :
       \E w \in {takeTurn(rolls, entrance)} :
         /\ food' = w.food
         /\ boosts' = w.boosts
         /\ ant' = w.ant
         /\ guard' = w.guard
         /\ bees' = w.bees
         /\ queenBees' = w.queenBees
         /\ hiveBees' = w.hiveBees
         /\ antActs' = w.antActs
         /\ beeActs' = w.beeActs
  /\ turn' = turn + 1
  /\ UNCHANGED <<config, waves, nextBee>>

----------------------------------------------------------------------------
(* Specifications *)

\* The games of Spec: the arguments of new AntColony(...) and new Hive(...):
\* one cell, dry or water
Setups ==
  { [numTunnels |-> 1, tunnelLength |-> 1, moatFrequency |-> 0,
     beeArmor |-> 2, beeDamage |-> 1, startingFood |-> 9],
    [numTunnels |-> 1, tunnelLength |-> 1, moatFrequency |-> 1,
     beeArmor |-> 2, beeDamage |-> 1, startingFood |-> 9] }

\* The state after new AntColony(...), new Hive(...) and new AntGame(...)
InitWith(s) ==
  /\ numTunnels = s.numTunnels
  /\ tunnelLength = s.tunnelLength
  /\ moatFrequency = s.moatFrequency
  /\ startingFood = s.startingFood
  /\ beeArmor = s.beeArmor
  /\ beeDamage = s.beeDamage
  /\ food = s.startingFood
  /\ boosts = [b \in BoostNames |-> IF b = "BugSpray" THEN 0 ELSE 1]
  /\ ant = [c \in (0 .. s.numTunnels - 1) \X (0 .. s.tunnelLength - 1) |-> NoAnt]
  /\ guard = [c \in (0 .. s.numTunnels - 1) \X (0 .. s.tunnelLength - 1) |-> NoAnt]
  /\ bees = [c \in (0 .. s.numTunnels - 1) \X (0 .. s.tunnelLength - 1) |-> <<>>]
  /\ queenBees = <<>>
  /\ hiveBees = <<>>
  /\ waves = <<>>
  /\ nextBee = 0
  /\ turn = 0
  /\ antActs = <<>>
  /\ beeActs = <<>>

Init == \E s \in Setups : InitWith(s)

\* The driver of Spec: every call with well-formed arguments (a call that
\* fails leaves every variable unchanged)
Next ==
  \/ \E antType \in KnownAntTypes, coords \in CellCoords : DeployAnt(antType, coords)
  \/ \E coords \in CellCoords : RemoveAnt(coords)
  \/ \E boostType \in BoostNames, coords \in CellCoords : BoostAnt(boostType, coords)
  \/ \E attackTurn \in 0 .. MaxTurn - 1, numBees \in 1 .. MaxBees - nextBee :
       BeforeGame /\ AddWave(attackTurn, numBees)
  \/ turn < MaxTurn /\ TakeTurn

Spec == Init /\ [][Next]_vars

----------------------------------------------------------------------------
(* Claims checked under Spec *)

\* The slot an ant of this kind goes to is taken
SlotTaken(c, a) == IF a.type = "Guard" THEN guard[c] # NoAnt ELSE ant[c] # NoAnt

RegularTypes == {"Grower", "Thrower", "Eater", "Scuba"}

\* The ant slot holds no Guard and the guard slot holds nothing but a Guard
C1_SlotKinds ==
  \A c \in Cells :
    /\ ant[c].type \in RegularTypes \cup {"undefined"}
    /\ guard[c].type \in {"Guard", "undefined"}

\* A step that is no turn leaves the occupant of a taken slot in place (its
\* boost aside) or empties the slot, and fills an empty slot with a new ant
\* of the slot's kind only
C1_Step ==
  turn' = turn =>
    \A c \in Cells :
      /\ ant[c] # NoAnt => ant'[c] = NoAnt \/ [ant'[c] EXCEPT !.boost = ant[c].boost] = ant[c]
      /\ guard[c] # NoAnt =>
           guard'[c] = NoAnt \/ [guard'[c] EXCEPT !.boost = guard[c].boost] = guard[c]
      /\ ant[c] = NoAnt /\ ant'[c] # NoAnt =>
           ant'[c] \in {GrowerAnt, ThrowerAnt, EaterAnt, ScubaAnt} /\ guard'[c] = guard[c]
      /\ guard[c] = NoAnt /\ guard'[c] # NoAnt => guard'[c] = GuardAnt /\ ant'[c] = ant[c]

\* C1: in every reachable state a cell holds at most one regular defender
\* (in its ant slot) and at most one Guard (in its guard slot); a deploy
\* succeeds only into an empty matching slot, so a Guard and a regular
\* defender can share a cell and two defenders of one slot kind never do.
C1_Slots == []C1_SlotKinds /\ [][C1_Step]_vars

\* A Guard and a regular defender share a cell
C1_Witness == \E c \in Cells : ant[c] # NoAnt /\ guard[c] # NoAnt

\* Deploying with too little food returns 'not enough food', whatever the slot
C2_Result ==
  \A antType \in KnownAntTypes, coords \in CellCoords :
    food < getFoodCost(NewAnt(antType)) =>
      DeployResult(antType, coords) = "not enough food"

\* and a step that changes anything is no such deploy
C2_Frame ==
  UNCHANGED <<colony, hive, turn>>
    \/ \A antType \in KnownAntTypes, coords \in CellCoords :
         ~(food < getFoodCost(NewAnt(antType)) /\ DeployAnt(antType, coords))

\* C2: for every defender type and cell, deploy with food < cost fails with
\* 'not enough food' and leaves the food and every cell unchanged, also when
\* the target slot is occupied (the food is checked first).
C2_NotEnoughFood == []C2_Result /\ [][C2_Frame]_vars

\* Too little food for a Guard or a Thrower in a cell whose slots are taken
C2_Witness ==
  \E c \in Cells :
    /\ ant[c] # NoAnt /\ guard[c] # NoAnt
    /\ food < getFoodCost(GuardAnt)
    /\ DeployResult("GUARD", <<c[1], c[2]>>) = "not enough food"

\* Deploying into a taken slot with enough food returns 'tunnel already occupied'
C3_Result ==
  \A antType \in KnownAntTypes, coords \in CellCoords :
    food >= getFoodCost(NewAnt(antType)) /\ SlotTaken(PlaceAt(coords), NewAnt(antType)) =>
      DeployResult(antType, coords) = "tunnel already occupied"

\* and a step that changes the food or an occupant is no such deploy
C3_Frame ==
  UNCHANGED <<food, ant, guard>>
    \/ \A antType \in KnownAntTypes, coords \in CellCoords :
         ~(/\ food >= getFoodCost(NewAnt(antType))
           /\ SlotTaken(PlaceAt(coords), NewAnt(antType))
           /\ DeployAnt(antType, coords))

\* C3: with food >= cost, deploying into a cell whose matching slot is taken
\* fails with 'tunnel already occupied', leaves the food unchanged and the
\* occupant in place.
C3_Occupied == []C3_Result /\ [][C3_Frame]_vars

\* A taken ant slot, a free guard slot and food for any defender
C3_Witness ==
  \E c \in Cells :
    /\ ant[c] # NoAnt /\ guard[c] = NoAnt
    /\ food >= getFoodCost(ScubaAnt)
    /\ DeployResult("thrower", <<c[1], c[2]>>) = "tunnel already occupied"

\* C4: gameIsWon returns false (lost) whenever the queen's Place holds a bee,
\* whatever bees are elsewhere; true (won) only when the queen's Place, every
\* cell and the Hive hold no bee; undefined (undecided) otherwise.
C4_Outcome ==
  gameIsWon =
    IF queenBees # <<>> THEN "false"
    ELSE IF (\A c \in Cells : bees[c] = <<>>) /\ hiveBees = <<>> THEN "true"
    ELSE "undefined"

\* Lost with no bee left in any cell or in the Hive
C4_Witness ==
  /\ queenBees # <<>>
  /\ \A c \in Cells : bees[c] = <<>>
  /\ hiveBees = <<>>
  /\ gameIsWon = "false"

\* The ids of the bees in a bees array
BeeIds(s) == {s[k].id : k \in 1 .. Len(s)}

\* The bees of the wave of the current turn that wait in the Hive
WaitingWave == {id \in BeeIds(hiveBees) : \E i \in 1 .. Len(WaveOf(turn)) : WaveOf(turn)[i] = id}

\* After the step every bee of the wave sits on an entrance as it was
\* created and has not acted
C5_Released ==
  \A id \in WaitingWave :
    /\ \E i \in 1 .. numTunnels :
         \E k \in 1 .. Len(bees'[getEntrances[i]]) : bees'[getEntrances[i]][k] = NewBee(id)
    /\ id \notin BeeIds(hiveBees')
    /\ \A k \in 1 .. Len(beeActs') : beeActs'[k] # id

\* The sweeps come in the order ants, bees, places: a Thrower throws before
\* the bee in its cell stings, and an ant on water blocks the first bee of
\* its cell before the water removes it
C5_SweepOrder ==
  \A c \in Cells :
    guard[c] = NoAnt /\ ant[c] # NoAnt /\ ant[c].armor > 0 /\ bees[c] # <<>> =>
      /\ ant[c].type = "Thrower" /\ ant[c].boost = "undefined" =>
           LET b == Head(bees[c])
           IN IF b.armor > 1
              THEN \E k \in 1 .. Len(bees'[c]) :
                     bees'[c][k].id = b.id /\ bees'[c][k].armor = b.armor - 1
              ELSE b.id \notin BeeIds(bees'[c]) \cup BeeIds(queenBees')
      /\ isWater(c) /\ ant[c].type = "Grower" =>
           /\ ant'[c] = NoAnt
           /\ Head(bees[c]).id \in BeeIds(bees'[c])

C5_Step ==
  /\ turn' = turn
       \/ ~(\/ \E antType \in KnownAntTypes, coords \in CellCoords : DeployAnt(antType, coords)
            \/ \E coords \in CellCoords : RemoveAnt(coords)
            \/ \E boostType \in BoostNames, coords \in CellCoords :
                 BoostAnt(boostType, coords))
  /\ turn' # turn => turn' = turn + 1 /\ C5_Released /\ C5_SweepOrder

\* C5: the turn counter starts at 0, a takeTurn adds exactly 1 to it and
\* deploy, remove and boost leave it alone; a takeTurn runs the ants' sweep,
\* the bees' sweep and the places' sweep, then releases the wave of the turn
\* number it started with, whose bees are on entrance cells with full armor
\* and have not acted when it returns.
C5_Turn == turn = 0 /\ [][C5_Step]_vars

\* A wave has just been released
C5_Witness ==
  /\ turn >= 1
  /\ \E i \in 1 .. numTunnels :
       \E k \in 1 .. Len(bees[getEntrances[i]]) :
         LET b == bees[getEntrances[i]][k]
         IN /\ b = NewBee(b.id)
            /\ \A j \in 1 .. Len(beeActs) : beeActs[j] # b.id
            /\ \E i2 \in 1 .. Len(WaveOf(turn - 1)) : WaveOf(turn - 1)[i2] = b.id

\* How many times the occupant of a slot acted in the sweep of the step
ActsOf(c, slot) == Cardinality({k \in 1 .. Len(antActs') : antActs'[k] = <<c, slot>>})

C8_ArmorPositive ==
  \A c \in Cells :
    /\ ant[c] # NoAnt => ant[c].armor > 0
    /\ guard[c] # NoAnt => guard[c].armor > 0

----------------------------------------------------------------------------
(* The end-to-end scenario: one tunnel of five cells, 10 food, one attacker  *)
(* (armor 2, damage 1) scheduled at turn 0, a driver that deploys Throwers. *)

\* The driver of SpecScenario calls takeTurn at most MaxScenarioTurn times.
MaxScenarioTurn == 8

ScenarioSetup ==
  [numTunnels |-> 1, tunnelLength |-> 5, moatFrequency |-> 0,
   beeArmor |-> 2, beeDamage |-> 1, startingFood |-> 10]

InitScenario == InitWith(ScenarioSetup)

NextScenario ==
  \/ \E coords \in CellCoords : DeployAnt("thrower", coords)
  \/ nextBee = 0 /\ AddWave(0, 1)
  \/ turn < MaxScenarioTurn /\ TakeTurn

SpecScenario == InitScenario /\ [][NextScenario]_vars

\* The position k of the scenario: k takeTurn calls after the Thrower went
\* to "0,4" (food 10 - 4) and the wave of one bee was scheduled at turn 0
ScenarioState(k) ==
  LET beeCell == IF k \in 1 .. 6 THEN <<0, IF k = 1 THEN 4 ELSE 6 - k>> ELSE NoPlace
      theBee == [id |-> 1, armor |-> IF k < 2 THEN 2 ELSE 1, status |-> "undefined"]
  IN /\ turn = k
     /\ food = 6
     /\ ant = [c \in Cells |-> IF c = <<0, 4>> /\ k < 2 THEN ThrowerAnt ELSE NoAnt]
     /\ guard = [c \in Cells |-> NoAnt]
     /\ waves = [t \in {0} |-> <<1>>]
     /\ hiveBees = IF k = 0 THEN <<theBee>> ELSE <<>>
     /\ bees = [c \in Cells |-> IF c = beeCell THEN <<theBee>> ELSE <<>>]
     /\ queenBees = IF k = 7 THEN <<theBee>> ELSE <<>>
     /\ gameIsWon = IF k = 7 THEN "false" ELSE "undefined"

\* C6 as stated: in the 1-tunnel, 5-cell colony with 10 food, a Thrower at
\* "0,4" (food 6) and one attacker (armor 2, damage 1) scheduled at turn 0,
\* the first takeTurn leaves the attacker on "0,4" with armor 1 and the
\* Thrower stung, and the second leaves no attacker and the game won.
C6_AsStated ==
  [][(ScenarioState(0) /\ turn' = turn + 1 =>
        /\ bees'[<<0, 4>>] = <<[id |-> 1, armor |-> 1, status |-> "undefined"]>>
        /\ ant'[<<0, 4>>] # ThrowerAnt)
     /\ (ScenarioState(1) /\ turn' = turn + 1 =>
           /\ \A c \in Cells : bees'[c] = <<>>
           /\ gameIsWon' = "true")]_vars

\* C6, corrected: in that scenario the first takeTurn only releases the
\* attacker onto "0,4" (armor 2, Thrower untouched); the second has the
\* Thrower deal 1 damage (armor 1) and the blocked attacker sting the Thrower,
\* whose armor 1 drops to 0, so it is removed; the attacker survives, the
\* game is undecided, the attacker advances one cell per takeTurn and stands
\* on the queen's Place after the seventh, when gameIsWon reports lost.
C6_Scenario ==
  [][\A k \in 0 .. 6 : ScenarioState(k) /\ turn' = turn + 1 => ScenarioState(k + 1)']_vars

\* The attacker of the scenario stands on the queen's Place
C6_Witness == ScenarioState(7)

----------------------------------------------------------------------------
(* Statuses: one tunnel of two cells, food for a Thrower and an Eater, a    *)
(* wave of two attackers at turn 0, a driver that deploys Throwers and      *)
(* Eaters and gives them the leaves that set a status.                      *)

\* The driver of SpecStatus calls takeTurn at most MaxStatusTurn times.
MaxStatusTurn == 3

StatusSetup ==
  [numTunnels |-> 1, tunnelLength |-> 2, moatFrequency |-> 0,
   beeArmor |-> 2, beeDamage |-> 1, startingFood |-> 8]

InitStatus == InitWith(StatusSetup)

NextStatus ==
  \/ \E antType \in {"thrower", "Eater"}, coords \in CellCoords : DeployAnt(antType, coords)
  \/ \E boostType \in {"StickyLeaf", "IcyLeaf"}, coords \in CellCoords :
       BoostAnt(boostType, coords)
  \/ nextBee = 0 /\ AddWave(0, 2)
  \/ turn < MaxStatusTurn /\ TakeTurn

SpecStatus == InitStatus /\ [][NextStatus]_vars

\* The bee acted in the bees' sweep of the step
ActedInStep(id) == \E k \in 1 .. Len(beeActs') : beeActs'[k] = id

\* C9 as stated: a status set during the ants' sweep of a turn is consumed by
\* the bees' sweep of the same turn, so between two turns no attacker on a
\* cell carries a status.
C9_AsStated ==
  \A c \in Cells : \A k \in 1 .. Len(bees[c]) : bees[c][k].status = "undefined"

C9_Step ==
  turn' # turn =>
    /\ \A k \in 1 .. Len(queenBees') : queenBees'[k].status = "undefined"
    /\ \A c \in Cells : \A k \in 1 .. Len(bees'[c]) :
         LET b == bees'[c][k]
         IN /\ ActedInStep(b.id) => b.status = "undefined"
            /\ b.status # "undefined" =>
                 /\ ~ActedInStep(b.id)
                 /\ ant[c].type = "Eater"
                 /\ b.id \in BeeIds(bees[c]) \cup BeeIds(ant[c].stomach)

\* C9, corrected: after every execution of an attacker's act, whichever
\* branch was taken, its status is none, so a status set during the ants'
\* sweep of turn T is consumed in turn T by an attacker that acts in it; an
\* attacker that an Eater swallowed after the status was set and coughs up
\* during the bees' sweep does not act in turn T and carries the status into
\* turn T+1.
C9_Status == [][C9_Step]_vars

\* An attacker that was coughed up with the status set on it in the turn,
\* next to an attacker that acted in the turn
C9_Witness ==
  \E c \in Cells : \E k, j \in 1 .. Len(bees[c]) :
    /\ bees[c][k].status = "stuck"
    /\ bees[c][k].armor < beeArmor
    /\ \A i \in 1 .. Len(beeActs) : beeActs[i] # bees[c][k].id
    /\ bees[c][j].status = "undefined"
    /\ \E i \in 1 .. Len(beeActs) : beeActs[i] = bees[c][j].id

----------------------------------------------------------------------------
(* Digestion: one cell, a driver that deploys Eaters and schedules waves of *)
(* one attacker.                                                            *)

\* The driver of SpecEater calls takeTurn at most MaxEaterTurn times.
MaxEaterTurn == 7

\* The driver of SpecEater schedules at most MaxEaterBees attackers.
MaxEaterBees == 2

EaterSetup ==
  [numTunnels |-> 1, tunnelLength |-> 1, moatFrequency |-> 0,
   beeArmor |-> 2, beeDamage |-> 1, startingFood |-> 9]

InitEater == InitWith(EaterSetup)

NextEater ==
  \/ \E coords \in CellCoords : DeployAnt("Eater", coords)
  \/ \E attackTurn \in 0 .. MaxEaterTurn - 1 :
       nextBee < MaxEaterBees /\ attackTurn \notin DOMAIN waves /\ AddWave(attackTurn, 1)
  \/ turn < MaxEaterTurn /\ TakeTurn

SpecEater == InitEater /\ [][NextEater]_vars

\* An Eater that never took damage
Undamaged(e) == e.type = "Eater" /\ e.armor = EaterAnt.armor

\* The bee is in no cell, not on the queen's Place and not in the Hive
GoneAfter(id) ==
  /\ \A c \in Cells : id \notin BeeIds(bees'[c])
  /\ id \notin BeeIds(queenBees') \cup BeeIds(hiveBees')

C10_Step ==
  turn' # turn =>
    \A c \in Cells :
      LET e == ant[c]
          after == ant'[c]
      IN /\ Undamaged(e) /\ Undamaged(after) =>
              /\ e.turnsEating = 0 /\ bees[c] # <<>> =>
                   after.turnsEating = 1 /\ after.stomach = <<Head(bees[c])>>
              /\ e.turnsEating \in 1 .. 3 =>
                   after.turnsEating = e.turnsEating + 1 /\ after.stomach = e.stomach
              /\ e.turnsEating = 4 =>
                   /\ after.turnsEating = 0 /\ after.stomach = <<>>
                   /\ GoneAfter(Head(e.stomach).id)
         /\ e.type = "Eater" /\ after.type = "Eater" /\ e.turnsEating \in 1 .. 4 =>
              BeeIds(after.stomach) \subseteq BeeIds(e.stomach)

\* An Eater that never took damage holds one bee while its counter is 1 to 4
\* and none while it is 0
C10_Stomach ==
  \A c \in Cells :
    Undamaged(ant[c]) =>
      /\ ant[c].turnsEating \in 0 .. 4
      /\ Len(ant[c].stomach) = IF ant[c].turnsEating = 0 THEN 0 ELSE 1

\* C10: an Eater that swallows an attacker (counter 1) and takes no damage
\* keeps it in its stomach while the counter is 1, 2, 3 and 4 and destroys it
\* exactly on the act that begins with counter > 3, the fourth act after the
\* swallow, which resets the counter to 0; an Eater whose counter is not 0
\* swallows no attacker.
C10_Digestion == []C10_Stomach /\ [][C10_Step]_vars

\* The one attacker of the game was released at the end of the first
\* takeTurn, swallowed in the second and destroyed in the sixth
C10_Witness ==
  /\ turn = 6
  /\ nextBee = 1
  /\ hiveBees = <<>> /\ queenBees = <<>>
  /\ \E c \in Cells :
       bees[c] = <<>> /\ Undamaged(ant[c]) /\ ant[c].turnsEating = 0 /\ ant[c].stomach = <<>>

----------------------------------------------------------------------------
(* Claims checked under SpecStatus and SpecEater *)

\* C11: when an Eater whose counter is 1 takes damage that leaves its armor
\* > 0, the swallowed bee goes with its armor unchanged from the stomach to
\* the end of the bees of the Eater's cell, the stomach becomes empty and the
\* counter becomes 3; damage that leaves armor > 0 at any other counter
\* changes only the Eater's armor.
C11_Cough ==
  \A c \in Cells :
    ant[c].type = "Eater" =>
      \A amount \in 1 .. ant[c].armor - 1 :
        LET e == ant[c]
            w == EaterReduceArmor(World, c, amount)
        IN IF e.turnsEating = 1
           THEN w = [World EXCEPT !.ant[c].armor = e.armor - amount,
                                  !.ant[c].stomach = <<>>,
                                  !.ant[c].turnsEating = 3,
                                  !.bees[c] = Append(bees[c], Head(e.stomach))]
           ELSE w = [World EXCEPT !.ant[c].armor = e.armor - amount]

\* An Eater that was stung in the turn of its swallow: the bee it coughed up
\* is the last of its cell and did not act, the bee that stung it did
C11_Witness ==
  \E c \in Cells :
    /\ ant[c].type = "Eater" /\ ant[c].turnsEating = 3 /\ ant[c].stomach = <<>>
    /\ ant[c].armor = EaterAnt.armor - beeDamage
    /\ Len(bees[c]) = 2
    /\ \A i \in 1 .. Len(beeActs) : beeActs[i] # bees[c][2].id
    /\ \E i \in 1 .. Len(beeActs) : beeActs[i] = bees[c][1].id

----------------------------------------------------------------------------
(* Claims checked under Spec *)

\* C12: Hive.invade for a turn with no wave leaves the Hive and the board
\* unchanged; for a turn t with a wave it puts each bee of the wave on an
\* entrance cell and takes it out of the Hive's bees, and the wave recorded
\* for turn t is empty afterwards.
C12_Release ==
  [][turn' # turn =>
       /\ WaveOf(turn) = <<>> => hiveBees' = hiveBees
       /\ \A id \in WaitingWave :
            /\ id \notin BeeIds(hiveBees')
            /\ \E i \in 1 .. numTunnels : id \in BeeIds(bees'[getEntrances[i]])
       /\ turn \in DOMAIN waves' => waves'[turn] = <<>>]_vars

----------------------------------------------------------------------------
(* Ranges: one tunnel of seven cells, food for one Thrower or one Scuba, a  *)
(* wave of one or two attackers at turn 0, a driver that deploys the ant    *)
(* and gives it the leaves.                                                 *)

\* The driver of SpecRange calls takeTurn at most MaxRangeTurn times.
MaxRangeTurn == 5

\* The wave of SpecRange has at most MaxRangeBees attackers.
MaxRangeBees == 2

RangeSetup ==
  [numTunnels |-> 1, tunnelLength |-> 7, moatFrequency |-> 0,
   beeArmor |-> 2, beeDamage |-> 1, startingFood |-> 5]

InitRange == InitWith(RangeSetup)

NextRange ==
  \/ \E antType \in {"thrower", "scuba"}, coords \in CellCoords : DeployAnt(antType, coords)
  \/ \E boostType \in {"FlyingLeaf", "StickyLeaf", "IcyLeaf"}, coords \in CellCoords :
       BoostAnt(boostType, coords)
  \/ \E numBees \in 1 .. MaxRangeBees : nextBee = 0 /\ AddWave(0, numBees)
  \/ turn < MaxRangeTurn /\ TakeTurn

SpecRange == InitRange /\ [][NextRange]_vars

\* The cells of the tunnel of c, from c towards the entrance, that hold a
\* bee at a distance from minDistance to maxDistance
BeeCellsInRange(c, maxDistance, minDistance) ==
  {p \in Cells : /\ p[1] = c[1]
                 /\ p[2] - c[2] >= minDistance /\ p[2] - c[2] <= maxDistance
                 /\ bees[p] # <<>>}

\* The nearest of them, NoPlace if there is none
NearestBeeCell(c, maxDistance, minDistance) ==
  LET cand == BeeCellsInRange(c, maxDistance, minDistance)
  IN IF cand = {} THEN NoPlace
     ELSE CHOOSE p \in cand : \A q \in cand : p[2] <= q[2]

\* getClosestBee finds the nearest cell in range, for every cell and range
C13_Nearest ==
  \A c \in Cells, maxDistance \in 0 .. tunnelLength, minDistance \in 0 .. 2 :
    getClosestBee(bees, c, maxDistance, minDistance)
      = NearestBeeCell(c, maxDistance, minDistance)

\* The armor of the bee after the step, 0 when it is on no Place
ArmorAfter(id) ==
  LET on == {b \in UNION {{bees'[p][k] : k \in 1 .. Len(bees'[p])} : p \in Cells}
                     \cup {queenBees'[k] : k \in 1 .. Len(queenBees')} : b.id = id}
  IN IF on = {} THEN 0 ELSE (CHOOSE b \in on : TRUE).armor

\* The bees on the cells
BeesOnCells == UNION {{bees[p][k] : k \in 1 .. Len(bees[p])} : p \in Cells}

\* A Thrower whose boost is not FlyingLeaf, the only ant of the colony, hits
\* in its act the first bee of the nearest cell within 3 and no other bee
C13_Throw ==
  turn' # turn =>
    \A c \in Cells :
      /\ ant[c].type = "Thrower" /\ ant[c].boost \notin {"FlyingLeaf", "BugSpray"}
      /\ \A p \in Cells \ {c} : ant[p] = NoAnt
      => LET target == NearestBeeCell(c, 3, 0)
         IN \A b \in BeesOnCells :
              ArmorAfter(b.id) =
                IF target # NoPlace /\ b = Head(bees[target]) THEN b.armor - 1 ELSE b.armor

\* C13: getClosestBee(max, min) from a cell returns the first bee of the
\* nearest cell, walking from the cell towards the entrance of its tunnel,
\* whose distance d satisfies min <= d <= max, and nothing when there is no
\* such cell; with max = 3 a bee at distance 3 is found and one at distance
\* 4 is not, and bees on the queen's side of the cell are never found.
C13_Closest == []C13_Nearest /\ [][C13_Throw]_vars

\* A Thrower at "0,3" hit the first of two bees at distance 3 in the second
\* turn, with no bee hit by a Thrower further than 3 away
C13_Witness ==
  /\ turn = 2
  /\ ant[<<0, 3>>].type = "Thrower"
  /\ bees[<<0, 5>>] = <<[id |-> 1, armor |-> beeArmor - 1, status |-> "undefined"],
                        [id |-> 2, armor |-> beeArmor, status |-> "undefined"]>>

----------------------------------------------------------------------------
(* Claims about the commands, checked under Spec *)

\* C14: deploy, remove and boost with coordinates that are malformed or name
\* a row or a column outside the grid fail with 'illegal location' (deploy
\* with an unknown ant type fails with 'unknown ant type' instead), whatever
\* the food and whatever the boost name.
C14_IllegalLocation ==
  \A coords \in CoordInputs \ CellCoords :
    /\ \A antType \in AntTypeInputs :
         DeployResult(antType, coords) =
           IF antType \in KnownAntTypes THEN "illegal location" ELSE "unknown ant type"
    /\ RemoveResult(coords) = "illegal location"
    /\ \A boostType \in BoostInputs : BoostResult(boostType, coords) = "illegal location"

\* What applyBoost returns for a cell: the inventory is looked at first
C15_Result ==
  \A boostType \in BoostInputs, coords \in CellCoords :
    BoostResult(boostType, coords) =
      IF boostType \notin DOMAIN boosts \/ boosts[boostType] < 1 THEN "no such boost"
      ELSE IF ant[PlaceAt(coords)] = NoAnt /\ guard[PlaceAt(coords)] = NoAnt
           THEN "no Ant at location"
           ELSE "undefined"

\* No command changes the inventory, and a boost that changes an ant is a
\* successful one that sets the boost of the ant getAnt() returns
C15_Step ==
  /\ turn' = turn => boosts' = boosts
  /\ UNCHANGED <<ant, guard>> \/ food' # food \/ turn' # turn
       \/ \A boostType \in BoostNames, coords \in CellCoords :
            BoostAnt(boostType, coords) =>
              /\ BoostResult(boostType, coords) = "undefined"
              /\ getAnt(World, PlaceAt(coords))' =
                   [getAnt(World, PlaceAt(coords)) EXCEPT !.boost = boostType]

\* C15: applyBoost fails with 'no such boost' when the inventory count of
\* the name is absent or below 1 (checked first), fails with 'no Ant at
\* location' when the cell holds no ant, and otherwise sets the ant's boost;
\* the inventory is unchanged in all three cases, so a boost with count >= 1
\* can be applied any number of times.
C15_ApplyBoost == []C15_Result /\ [][C15_Step]_vars

\* The one StickyLeaf of the inventory was applied twice and is still there
C15_Witness ==
  \E c \in Cells :
    /\ ant[c].boost = "StickyLeaf" /\ guard[c].boost = "StickyLeaf"
    /\ boosts["StickyLeaf"] = 1

----------------------------------------------------------------------------
(* Kills: one cell, attackers of armor 1, a driver that                      *)
(* deploys Growers, Throwers and Scubas, removes ants and sprays.           *)

\* The driver of SpecKill calls takeTurn at most MaxKillTurn times.
MaxKillTurn == 3

\* The driver of SpecKill schedules at most MaxKillBees attackers.
MaxKillBees == 2

KillSetup ==
  [numTunnels |-> 1, tunnelLength |-> 1, moatFrequency |-> 0,
   beeArmor |-> 1, beeDamage |-> 1, startingFood |-> 6]

InitKill == InitWith(KillSetup)

NextKill ==
  \/ \E antType \in {"Grower", "thrower", "scuba"}, coords \in CellCoords :
       DeployAnt(antType, coords)
  \/ \E coords \in CellCoords : RemoveAnt(coords)
  \/ \E coords \in CellCoords : BoostAnt("BugSpray", coords)
  \/ \E attackTurn \in 0 .. MaxKillTurn - 2, numBees \in 1 .. MaxKillBees - nextBee :
       BeforeGame /\ AddWave(attackTurn, numBees)
  \/ turn < MaxKillTurn /\ TakeTurn

SpecKill == InitKill /\ [][NextKill]_vars

\* Every bee of a cell, of the queen's Place and of the Hive has armor > 0
C16_Alive ==
  /\ \A c \in Cells : \A k \in 1 .. Len(bees[c]) : bees[c][k].armor > 0
  /\ \A k \in 1 .. Len(queenBees) : queenBees[k].armor > 0
  /\ \A k \in 1 .. Len(hiveBees) : hiveBees[k].armor > 0

\* A Thrower or Scuba without boost removes the first bee of its cell when
\* that bee has armor 1, one with BugSpray removes every bee of its cell
C16_Step ==
  turn' # turn =>
    \A c \in Cells :
      ant[c].type \in {"Thrower", "Scuba"} /\ ant[c].armor > 0 /\ bees[c] # <<>> =>
        /\ ant[c].boost = "undefined" /\ Head(bees[c]).armor = 1 =>
             GoneAfter(Head(bees[c]).id)
        /\ ant[c].boost = "BugSpray" =>
             \A k \in 1 .. Len(bees[c]) : GoneAfter(bees[c][k].id)

\* C16: no bee with armor <= 0 is ever in the bees of a cell: a bee whose
\* armor a Thrower, a Scuba or a BugSpray brings to <= 0 is removed from its
\* cell in the same action; an unboosted Thrower that hits a bee of armor 1
\* removes it in one action.
C16_Killed == []C16_Alive /\ [][C16_Step]_vars

\* An unboosted Thrower has removed the one bee of the game in the second
\* turn, in a game in which no BugSpray was ever found
C16_Witness ==
  /\ turn = 2 /\ nextBee = 1 /\ boosts["BugSpray"] = 0
  /\ hiveBees = <<>> /\ queenBees = <<>>
  /\ \E c \in Cells :
       /\ bees[c] = <<>>
       /\ ant[c].type = "Thrower" /\ ant[c].boost = "undefined"
       /\ antActs = <<(<<c, "ant">>)>>

----------------------------------------------------------------------------
(* Claims about water, checked under Spec *)

\* Place.act() on a water cell empties the guard slot and keeps the ant only
\* when it is a Scuba, and changes nothing else; on a dry cell it changes
\* nothing
C17_Act ==
  \A c \in Cells :
    IF isWater(c)
    THEN PlaceAct(World, c) =
           [World EXCEPT !.guard[c] = NoAnt,
                         !.ant[c] = IF ant[c].type = "Scuba" THEN ant[c] ELSE NoAnt]
    ELSE PlaceAct(World, c) = World

\* AntGame.deployAnt() onto a water cell with a free slot and enough food
\* returns undefined
C17_Deploy ==
  \A c \in Cells, antType \in KnownAntTypes :
    /\ isWater(c)
    /\ ~SlotTaken(c, NewAnt(antType))
    /\ food >= getFoodCost(NewAnt(antType))
    => DeployResult(antType, c) = "undefined"

\* After takeTurn no water cell holds a Guard or an ant that is no Scuba, and
\* a Scuba that was alive after the bees' sweep is still there; between
\* turns an ant that appears on a water cell is paid for
C17_Step ==
  \/ /\ turn' = turn
     /\ \A c \in Cells :
          /\ isWater(c) /\ ant[c] = NoAnt /\ ant'[c] # NoAnt =>
               food' = food - getFoodCost(ant'[c])
          /\ isWater(c) /\ guard[c] = NoAnt /\ guard'[c] # NoAnt =>
               food' = food - getFoodCost(guard'[c])
  \/ /\ turn' # turn
     /\ \A c \in Cells :
          isWater(c) =>
            /\ guard'[c] = NoAnt
            /\ ant'[c].type \in {"Scuba", NoAnt.type}
            /\ LET swept == beesAct(antsAct(World, [g \in GrowerCells |-> "nothing"]))
               IN swept.ant[c].type = "Scuba" => ant'[c] = swept.ant[c]

\* C17: Place.act() on a water cell removes the Guard if present and the ant
\* unless it is a Scuba (a Scuba under a Guard stays while the Guard goes),
\* and does nothing on a dry cell; so after every takeTurn no water cell
\* holds a Guard or a non-Scuba ant, although deploying onto a water cell
\* succeeds and takes the food.
C17_Water == []C17_Act /\ []C17_Deploy /\ [][C17_Step]_vars

\* After the first turn a Scuba is on a water cell and the Guard that acted
\* in that turn from the same cell is gone; the food paid for both is spent
C17_Witness ==
  /\ turn = 1
  /\ \E c \in Cells :
       /\ isWater(c)
       /\ ant[c].type = "Scuba" /\ guard[c] = NoAnt
       /\ \E k \in 1 .. Len(antActs) : antActs[k] = <<c, "guard">>
  /\ food = startingFood - getFoodCost(ScubaAnt) - getFoodCost(GuardAnt)

----------------------------------------------------------------------------
(* Claims about the bees' acts, checked under Spec *)

\* The ant a after damage d: NoAnt when it dies
Stung(a, d) == IF a.armor - d > 0 THEN [a EXCEPT !.armor = @ - d] ELSE NoAnt

\* The bees of cell c that are not cold
Stingers(bs) == {k \in 1 .. Len(bs) : bs[k].status # "cold"}

\* Bee.act() of a blocked bee that is not cold takes beeDamage from the armor
\* of the Guard of its cell when there is one, and else of the ant of the
\* ant slot, and from no other ant
C18_Act ==
  \A c \in Cells : \A k \in 1 .. Len(bees[c]) :
    isBlocked(World, c) /\ bees[c][k].status # "cold" =>
      LET w == BeeAct(World, c, bees[c][k].id)
      IN IF guard[c] # NoAnt
         THEN /\ w.ant = ant
              /\ w.guard = [guard EXCEPT ![c] = Stung(guard[c], beeDamage)]
         ELSE /\ w.guard = guard
              /\ \A p \in Cells \ {c} : w.ant[p] = ant[p]
              /\ w.ant[c].armor = Stung(ant[c], beeDamage).armor
              /\ w.ant[c].type = Stung(ant[c], beeDamage).type

\* In a turn that a Guard outlives, each bee of its cell that is not cold
\* after the ants' sweep takes beeDamage from the Guard, and the bees leave
\* the ant below it as the ants' sweep left it
C18_Step ==
  turn' # turn =>
    \A c \in Cells :
      guard[c] # NoAnt /\ guard'[c] # NoAnt =>
        LET swept == antsAct(World, [g \in GrowerCells |-> "nothing"])
        IN /\ ant'[c] = swept.ant[c]
           /\ guard'[c].armor =
                guard[c].armor - beeDamage * Cardinality(Stingers(swept.bees[c]))

\* C18: a blocked bee that is not cold stings one ant per act and takes
\* beeDamage from its armor: the Guard when the cell has one, else the ant
\* of the ant slot; a sting never reduces the armor of an ant that is under
\* a Guard.
C18_Sting == []C18_Act /\ [][C18_Step]_vars

\* A bee has stung the Guard of its cell once and acted, and the ant below
\* the Guard has its full armor
C18_Witness ==
  \E c \in Cells :
    /\ guard[c] # NoAnt /\ guard[c].armor = GuardAnt.armor - beeDamage
    /\ ant[c] = ThrowerAnt
    /\ Len(bees[c]) = 1 /\ beeActs = <<bees[c][1].id>>

----------------------------------------------------------------------------
(* Claims about the bees' moves, checked under SpecStatus *)

\* The bee b stings on its act
Stings(blocked, b) == blocked /\ b.status # "cold"

\* The bee b leaves its cell on its act: as the claim states it (a blocked
\* bee that is cold counts as free to go), and as Bee.act() has it
MovesWhen(stated, blocked, b) ==
  /\ b.armor > 0 /\ b.status # "stuck"
  /\ IF stated THEN ~Stings(blocked, b) ELSE ~blocked

\* The bee id is in the bees of world w one cell nearer the queen than c, in
\* the same tunnel, and no longer in those of c
MovedIn(w, c, id) ==
  /\ id \notin BeeIds(w.bees[c])
  /\ IF c[2] = 0
     THEN id \in BeeIds(w.queenBees)
     ELSE id \in BeeIds(w.bees[<<c[1], c[2] - 1>>])

\* The outcome of Bee.act() for every bee of every cell
ActOutcome(stated) ==
  \A c \in Cells : \A k \in 1 .. Len(bees[c]) :
    LET b == bees[c][k]
        w == BeeAct(World, c, b.id)
    IN /\ IF Stings(isBlocked(World, c), b)
          THEN b.id \in BeeIds(w.bees[c]) /\ <<w.ant, w.guard>> # <<ant, guard>>
          ELSE w.ant = ant /\ w.guard = guard
       /\ IF MovesWhen(stated, isBlocked(World, c), b)
          THEN MovedIn(w, c, b.id)
          ELSE /\ b.id \in BeeIds(w.bees[c])
               /\ w.queenBees = queenBees
               /\ \A p \in Cells \ {c} : w.bees[p] = bees[p]

\* The outcome of a turn for every bee the ants' sweep left on a cell that
\* has an ant to the end of the turn, or had none after the ants' sweep
TurnOutcome(stated) ==
  turn' # turn =>
    LET swept == antsAct(World, [g \in GrowerCells |-> "nothing"])
        after == [bees |-> bees', queenBees |-> queenBees']
    IN \A c \in Cells : \A k \in 1 .. Len(swept.bees[c]) :
         LET b == swept.bees[c][k]
         IN /\ ant'[c] # NoAnt \/ guard'[c] # NoAnt =>
                 IF MovesWhen(stated, TRUE, b)
                 THEN MovedIn(after, c, b.id)
                 ELSE b.id \in BeeIds(bees'[c])
            /\ ~isBlocked(swept, c) =>
                 IF MovesWhen(stated, FALSE, b)
                 THEN MovedIn(after, c, b.id)
                 ELSE b.id \in BeeIds(bees'[c])

\* C19 as stated: a bee that is blocked and not cold stings and stays in its
\* cell; otherwise (not blocked, or blocked but cold), if it is alive and
\* not stuck, it moves to the next cell toward the queen in its tunnel; in
\* the remaining case it stays where it is.
C19_AsStated == []ActOutcome(TRUE) /\ [][TurnOutcome(TRUE)]_vars

\* C19: a bee that is blocked and not cold stings and stays in its cell; a
\* blocked bee that is cold stays in its cell and does not sting; a bee
\* that is not blocked moves to the next cell toward the queen in its
\* tunnel if it is alive and not stuck, and else stays where it is.
C19_BeeAct == []ActOutcome(FALSE) /\ [][TurnOutcome(FALSE)]_vars

\* After the second turn both bees of the wave are in the entrance cell and
\* the one ant of the game, which acted there, is dead: the first bee, hit by
\* the IcyLeaf of the Thrower that blocked it, has stayed without stinging,
\* and the second has stung that Thrower to death
C19_Witness ==
  /\ turn = 2
  /\ food = startingFood - getFoodCost(ThrowerAnt)
  /\ \A c \in Cells : ant[c] = NoAnt
  /\ \E c \in Cells :
       /\ c[2] = tunnelLength - 1
       /\ antActs = <<(<<c, "ant">>)>>
       /\ Len(bees[c]) = 2
       /\ bees[c][1].armor = beeArmor - 1 /\ bees[c][2].armor = beeArmor
       /\ beeActs = <<bees[c][1].id, bees[c][2].id>>

----------------------------------------------------------------------------
(* Claims about the leaves, checked under SpecRange *)

\* The range of the search of an ant with this boost
RangeOf(boost) == IF boost = "FlyingLeaf" THEN 5 ELSE 3

\* The bee b after a leaf thrown with this boost
LeafHit(b, boost) ==
  [b EXCEPT !.armor = @ - 1,
            !.status = IF boost = "StickyLeaf" THEN "stuck"
                       ELSE IF boost = "IcyLeaf" THEN "cold" ELSE @]

\* The act of a Thrower or Scuba without BugSpray changes nothing when no
\* cell within its range holds a bee; else it takes 1 armor from the first
\* bee of the nearest such cell, which leaves the cell when that kills it
\* and else is stuck after a StickyLeaf and cold after an IcyLeaf, and the
\* boost of the ant becomes undefined
C20_Act ==
  \A c \in Cells :
    ant[c].type \in {"Thrower", "Scuba"} /\ ant[c].boost # "BugSpray" =>
      LET w == IF ant[c].type = "Thrower" THEN ThrowerAct(World, c) ELSE ScubaAct(World, c)
          target == NearestBeeCell(c, RangeOf(ant[c].boost), 0)
          b == Head(bees[target])
      IN IF target = NoPlace
         THEN w = World
         ELSE w = [World EXCEPT
                     !.ant[c].boost = "undefined",
                     !.bees[target] = IF b.armor > 1
                                      THEN <<LeafHit(b, ant[c].boost)>> \o Tail(@)
                                      ELSE Tail(@)]

\* In a turn the Thrower or Scuba that is the only ant and has no BugSpray
\* keeps its boost when no bee is in range and else loses it and takes 1
\* armor from its target; a target on another cell that lives stays there
\* after a StickyLeaf and walks on after any other leaf
C20_Step ==
  turn' # turn =>
    \A c \in Cells :
      /\ ant[c].type \in {"Thrower", "Scuba"} /\ ant[c].boost # "BugSpray"
      /\ guard[c] = NoAnt
      /\ \A p \in Cells \ {c} : ant[p] = NoAnt
      => LET target == NearestBeeCell(c, RangeOf(ant[c].boost), 0)
             b == Head(bees[target])
         IN /\ ant'[c] # NoAnt =>
                 ant'[c].boost = IF target = NoPlace THEN ant[c].boost ELSE "undefined"
            /\ \A q \in BeesOnCells :
                 ArmorAfter(q.id) =
                   IF target # NoPlace /\ q = b THEN q.armor - 1 ELSE q.armor
            /\ target \notin {NoPlace, c} /\ b.armor > 1 =>
                 IF ant[c].boost = "StickyLeaf"
                 THEN b.id \in BeeIds(bees'[target])
                 ELSE b.id \in BeeIds(bees'[<<target[1], target[2] - 1>>])

\* C20: a Thrower or Scuba whose boost is not BugSpray searches range 5 with
\* a FlyingLeaf and 3 otherwise; a target found takes 1 damage, is stuck
\* under StickyLeaf and cold under IcyLeaf, and the ant's boost becomes
\* undefined; with no target nothing changes and the boost stays for later
\* turns: an act clears the boost if and only if it found a target.
C20_Leaves == []C20_Act /\ [][C20_Step]_vars

\* A Thrower at "0,1" has hit the one bee of the game at distance 5, on the
\* entrance cell, in the second turn, and has no boost left
C20_Witness ==
  /\ turn = 2 /\ nextBee = 1
  /\ ant[<<0, 1>>] = ThrowerAnt
  /\ bees[<<0, 5>>] = <<[id |-> 1, armor |-> beeArmor - 1, status |-> "undefined"]>>

----------------------------------------------------------------------------
(* Sprays: one tunnel of two cells, attackers of armor 1 or 11, a driver    *)
(* that deploys a Grower next to the queen before the first turn and takes  *)
(* it off before the next turn once it has found a BugSpray, and deploys    *)
(* Throwers and Scubas on the entrance cell and gives them the BugSpray.    *)

\* The driver of SpecSpray calls takeTurn at most MaxSprayTurn times.
MaxSprayTurn == 3

\* The driver of SpecSpray schedules at most MaxSprayBees attackers.
MaxSprayBees == 2

SpraySetups ==
  { [numTunnels |-> 1, tunnelLength |-> 2, moatFrequency |-> 0,
     beeArmor |-> armor, beeDamage |-> 1, startingFood |-> 6] : armor \in {1, 11} }

InitSpray == \E s \in SpraySetups : InitWith(s)

NextSpray ==
  \/ \E coords \in CellCoords :
       turn = 0 /\ PlaceAt(coords)[2] = 0 /\ DeployAnt("Grower", coords)
  \/ \E antType \in {"thrower", "scuba"}, coords \in CellCoords :
       PlaceAt(coords)[2] = tunnelLength - 1 /\ DeployAnt(antType, coords)
  \/ \E coords \in CellCoords : ant[PlaceAt(coords)].type = "Grower" /\ RemoveAnt(coords)
  \/ \E coords \in CellCoords : BoostAnt("BugSpray", coords)
  \/ \E attackTurn \in 0 .. 1, numBees \in 1 .. MaxSprayBees - nextBee :
       BeforeGame /\ AddWave(attackTurn, numBees)
  \/ /\ turn < MaxSprayTurn
     /\ GrowerCells # {} => boosts["BugSpray"] = 0
     /\ TakeTurn

SpecSpray == InitSpray /\ [][NextSpray]_vars

\* The number of reduceArmor(10) calls of the while loop of the BugSpray
\* branch in cell c
RECURSIVE SprayCalls(_, _)
SprayCalls(w, c) ==
  IF getClosestBee(w.bees, c, 0, 0) = NoPlace THEN 0
  ELSE 1 + SprayCalls(BeeReduceArmor(w, c, 10), c)

\* The number of times 10 must be taken from the armor of each bee of s
\* until it is 0 or less, summed over s
RECURSIVE TensIn(_)
TensIn(s) ==
  IF s = <<>> THEN 0 ELSE (Head(s).armor + 9) \div 10 + TensIn(Tail(s))

\* The act of a Thrower or Scuba with BugSpray calls reduceArmor(10) as
\* often as the armors of the bees of its cell hold a ten, leaves no bee in
\* its cell and every other bee where it is; the ant loses 10 armor and
\* keeps the BugSpray if it is still in its slot
C21_Act ==
  \A c \in Cells :
    ant[c].type \in {"Thrower", "Scuba"} /\ ant[c].boost = "BugSpray" =>
      LET w == IF ant[c].type = "Thrower" THEN ThrowerAct(World, c) ELSE ScubaAct(World, c)
      IN /\ SprayCalls(World, c) = TensIn(bees[c])
         /\ w.bees = [bees EXCEPT ![c] = <<>>]
         /\ w.queenBees = queenBees /\ w.hiveBees = hiveBees
         /\ w.food = food /\ w.boosts = boosts
         /\ \A p \in Cells \ {c} : w.ant[p] = ant[p]
         /\ w.ant[c] \in {NoAnt, [ant[c] EXCEPT !.armor = @ - 10]}

\* In a turn every bee of the cell of a Thrower or Scuba that acts with
\* BugSpray is gone, and while no other ant throws, the bees of the other
\* cells keep their armor
C21_Step ==
  turn' # turn =>
    \A c \in Cells :
      /\ ant[c].type \in {"Thrower", "Scuba"} /\ ant[c].boost = "BugSpray"
      /\ guard[c] = NoAnt
      => /\ \A k \in 1 .. Len(bees[c]) : GoneAfter(bees[c][k].id)
         /\ (\A p \in Cells \ {c} : ant[p].type \in {"Grower", NoAnt.type}) =>
              \A p \in Cells \ {c} : \A k \in 1 .. Len(bees[p]) :
                ArmorAfter(bees[p][k].id) = bees[p][k].armor

\* C21: the act of a Thrower or Scuba with BugSpray ends for every armor
\* and number of bees in its cell: it takes 10 from the first bee of its
\* cell until the cell has no bee, then 10 from itself; bees in other cells
\* are untouched and the boost is not cleared.
C21_Spray == []C21_Act /\ [][C21_Step]_vars

\* A spray has removed a bee of armor 11 from the entrance cell, the ant
\* that sprayed is gone, and the bee of the earlier wave, which was on the
\* other cell, has walked on to the queen with its armor
C21_Witness ==
  /\ beeArmor = 11 /\ turn = 3 /\ nextBee = 2
  /\ hiveBees = <<>>
  /\ queenBees = <<NewBee(1)>>
  /\ \A c \in Cells : bees[c] = <<>>
  /\ boosts["BugSpray"] = 1
  /\ antActs = <<(<<(<<0, 1>>), "ant">>)>>
  /\ ant[<<0, 1>>] = NoAnt

----------------------------------------------------------------------------
(* Stomachs: one cell, dry or water, attackers whose sting kills an Eater, *)
(* a driver that deploys Eaters, removes ants and gives boosts.             *)

\* The driver of SpecCough calls takeTurn at most MaxCoughTurn times.
MaxCoughTurn == 6

\* The driver of SpecCough schedules at most MaxCoughBees attackers.
MaxCoughBees == 2

CoughSetups ==
  { [numTunnels |-> 1, tunnelLength |-> 1, moatFrequency |-> m,
     beeArmor |-> 2, beeDamage |-> 2, startingFood |-> 8] : m \in {0, 1} }

InitCough == \E s \in CoughSetups : InitWith(s)

NextCough ==
  \/ \E coords \in CellCoords : DeployAnt("Eater", coords)
  \/ \E coords \in CellCoords : RemoveAnt(coords)
  \/ \E boostType \in BoostNames, coords \in CellCoords : BoostAnt(boostType, coords)
  \/ \E attackTurn \in 0 .. MaxCoughTurn - 1, numBees \in 1 .. MaxCoughBees - nextBee :
       BeforeGame /\ AddWave(attackTurn, numBees)
  \/ turn < MaxCoughTurn /\ TakeTurn

SpecCough == InitCough /\ [][NextCough]_vars

\* The bees of the sequence s, as a set
BeesOf(s) == {s[k] : k \in 1 .. Len(s)}

\* EaterAnt.reduceArmor() of an Eater with no Guard above it, with an amount
\* that brings its armor to 0 or less while turnsEating is 1 or 2, empties
\* the ant slot and puts the swallowed bee as it is at the end of the bees
\* of the cell
C22_Act ==
  \A c \in Cells :
    /\ ant[c].type = "Eater" /\ ant[c].turnsEating \in {1, 2} /\ guard[c] = NoAnt
    => \A amount \in ant[c].armor .. ant[c].armor + 1 :
         LET w == EaterReduceArmor(World, c, amount)
         IN /\ ant[c].stomach # <<>>
            /\ w = [World EXCEPT !.ant[c] = NoAnt,
                                  !.bees[c] = Append(@, Head(ant[c].stomach))]

\* In a turn in which an Eater dies whose turnsEating was 1 or 2 after the
\* ants' sweep, the bee it held is in its cell afterwards as it was
C22_Step ==
  turn' # turn =>
    \A c \in Cells :
      LET swept == antsAct(World, [g \in GrowerCells |-> "nothing"])
      IN /\ ~isWater(c) /\ ant[c].type = "Eater" /\ guard[c] = NoAnt
         /\ swept.ant[c].turnsEating \in {1, 2}
         /\ ant'[c] = NoAnt
         => Head(swept.ant[c].stomach) \in BeesOf(bees'[c])

\* C22: when damage brings the armor of an Eater to <= 0 while its
\* turnsEating is 1 or 2, the swallowed bee is put alive, its armor
\* unchanged, in the Eater's cell and the Eater is then removed; after the
\* action the cell holds the bee and no longer the Eater.
C22_FatalCough == []C22_Act /\ [][C22_Step]_vars

\* After the third turn the Eater that acted in it is gone and the cell
\* holds the first bee, which did not act in that turn, behind the second,
\* which did: the Eater had swallowed the first bee a turn earlier
C22_Witness ==
  /\ turn = 3 /\ nextBee = 2
  /\ \E c \in Cells :
       /\ ~isWater(c)
       /\ ant[c] = NoAnt
       /\ antActs = <<(<<c, "ant">>)>>
       /\ bees[c] = <<NewBee(2), NewBee(1)>>
       /\ beeActs = <<2>>

\* C23 as stated: a bee in the stomach of an Eater leaves the game only by
\* being digested: after every step it is still in a stomach, or it is
\* back on a cell as it was, or the step is a turn in which the Eater,
\* whose turnsEating was above 3, released it; it never disappears with an
\* Eater that is killed at a higher turnsEating, removed by the remove
\* command or removed from a water cell.
C23_OnlyDigested ==
  [][\A c \in Cells : \A k \in 1 .. Len(ant[c].stomach) :
       LET b == ant[c].stomach[k]
       IN \/ \E p \in Cells : b.id \in BeeIds(ant'[p].stomach)
          \/ \E p \in Cells : b \in BeesOf(bees'[p])
          \/ turn' # turn /\ ant[c].turnsEating > 3]_vars

----------------------------------------------------------------------------
(* Claims about the food and the inventory, checked under Spec *)

\* The food cost of each kind of ant, as the claim lists them
CostOf(type) ==
  CASE type = "Grower" -> 1
    [] type = "Thrower" -> 4
    [] type = "Eater" -> 4
    [] type = "Scuba" -> 5
    [] type = "Guard" -> 4

\* The food and every count of the inventory are >= 0
C24_NonNegative == food >= 0 /\ \A b \in BoostNames : boosts[b] >= 0

\* The number of acts of Growers in the ants' sweep of the step
GrowerActs ==
  Cardinality({k \in 1 .. Len(antActs') :
                 antActs'[k][2] = "ant" /\ ant[antActs'[k][1]].type = "Grower"})

\* The sum of boosts'[b] - boosts[b] over the boost names
Found == LET d(b) == boosts'[b] - boosts[b]
         IN d("FlyingLeaf") + d("StickyLeaf") + d("IcyLeaf") + d("BugSpray")

\* Between turns the food changes only when an ant appears in a free slot,
\* by the cost of its kind, and the inventory does not change; in a turn
\* neither the food nor any count goes down, and together they go up by no
\* more than one per act of a Grower
C24_Step ==
  \/ /\ turn' = turn
     /\ boosts' = boosts
     /\ \/ food' = food
        \/ \E c \in Cells :
             \/ /\ ant[c] = NoAnt /\ ant'[c] # NoAnt /\ guard' = guard
                /\ food' = food - CostOf(ant'[c].type)
             \/ /\ guard[c] = NoAnt /\ guard'[c] # NoAnt /\ ant' = ant
                /\ food' = food - CostOf(guard'[c].type)
  \/ /\ turn' # turn
     /\ food' >= food
     /\ \A b \in BoostNames : boosts'[b] >= boosts[b]
     /\ (food' - food) + Found <= GrowerActs

\* A successful deploy takes the cost of the ant, and no other command
\* changes the food
C24_Deploy ==
  turn' = turn =>
    \A c \in Cells :
      /\ ant[c] = NoAnt /\ ant'[c] # NoAnt => food' = food - CostOf(ant'[c].type)
      /\ guard[c] = NoAnt /\ guard'[c] # NoAnt => food' = food - CostOf(guard'[c].type)

\* C24: the food is >= 0 in every state; it goes down only by a deploy that
\* succeeds, by the cost of the ant deployed (Grower 1, Thrower 4, Eater 4,
\* Scuba 5, Guard 4), and up only by 1 per act of a Grower that finds food;
\* every count of the boost inventory is >= 0 and never goes down.
C24_Food == []C24_NonNegative /\ [][C24_Step /\ C24_Deploy]_vars

\* A Grower and a Guard have been paid for and the Grower has found one
\* food, and no boost, in the first turn
C24_Witness ==
  /\ turn = 1
  /\ boosts = [b \in BoostNames |-> IF b = "BugSpray" THEN 0 ELSE 1]
  /\ \E c \in Cells : ant[c] = GrowerAnt /\ guard[c] = GuardAnt
  /\ food = startingFood - 1 + 1 - 4

----------------------------------------------------------------------------
(* Sweeps: two tunnels of two cells, food for one Eater, a driver that      *)
(* deploys Eaters and schedules waves before the first turn.                *)

\* The driver of SpecSweep calls takeTurn at most MaxSweepTurn times.
MaxSweepTurn == 3

\* The driver of SpecSweep schedules at most MaxSweepBees attackers.
MaxSweepBees == 3

SweepSetup ==
  [numTunnels |-> 2, tunnelLength |-> 2, moatFrequency |-> 0,
   beeArmor |-> 1, beeDamage |-> 1, startingFood |-> 4]

InitSweep == InitWith(SweepSetup)

NextSweep ==
  \/ \E coords \in CellCoords : DeployAnt("Eater", coords)
  \/ \E attackTurn \in 0 .. 1, numBees \in 1 .. MaxSweepBees - nextBee :
       BeforeGame /\ AddWave(attackTurn, numBees)
  \/ turn < MaxSweepTurn /\ TakeTurn

SpecSweep == InitSweep /\ [][NextSweep]_vars

\* The cell and the position in its bees of the bee id in world w
LocIn(w, id) ==
  CHOOSE loc \in Cells \X (1 .. MaxSweepBees + 1) :
    loc[2] <= Len(w.bees[loc[1]]) /\ w.bees[loc[1]][loc[2]].id = id

\* Tunnel first, then the step from the queen, then the arrival in the cell
Before(a, b) ==
  \/ a[1][1] < b[1][1]
  \/ a[1][1] = b[1][1] /\ a[1][2] < b[1][2]
  \/ a[1] = b[1] /\ a[2] < b[2]

\* The ids of the bees on the cells of world w
OnCells(w) == UNION {BeeIds(w.bees[c]) : c \in Cells}

\* In a turn the bees that act are the bees on the cells after the ants'
\* sweep, each once, in the order of tunnel, step and arrival; a bee ends
\* the turn in its cell or one step nearer the queen in its tunnel, and the
\* bees on the queen's Place stay as they are
C25_Step ==
  turn' # turn =>
    LET swept == antsAct(World, [g \in GrowerCells |-> "nothing"])
    IN /\ {beeActs'[k] : k \in 1 .. Len(beeActs')} = OnCells(swept)
       /\ Len(beeActs') = Cardinality(OnCells(swept))
       /\ \A k, l \in 1 .. Len(beeActs') :
            k < l => Before(LocIn(swept, beeActs'[k]), LocIn(swept, beeActs'[l]))
       /\ \A c \in Cells : \A id \in BeeIds(bees[c]) :
            /\ \A p \in Cells :
                 id \in BeeIds(bees'[p]) => p[1] = c[1] /\ p[2] \in {c[2], c[2] - 1}
            /\ id \in BeeIds(queenBees') => c[2] = 0
       /\ SubSeq(queenBees', 1, Len(queenBees)) = queenBees

\* C25: in one bees' sweep act is called exactly once on every bee that is
\* on a cell when the sweep starts, in the order of tunnel, step and
\* arrival; so no bee advances more than one cell per takeTurn, and the
\* bees that come to the board during or after the sweep (coughed up by an
\* Eater, released by the Hive) and the bees on the queen's Place do not
\* act in that turn.
C25_Sweep == [][C25_Step]_vars

\* In the last turn a bee of each tunnel acted, the first tunnel first,
\* while the bee that an Eater coughed up in that sweep, now the second bee
\* of the Eater's cell, did not
C25_Witness ==
  /\ Len(beeActs) = 2
  /\ \E c, p \in Cells :
       /\ c[1] < p[1]
       /\ beeActs[1] \in BeeIds(bees[c]) /\ beeActs[2] \in BeeIds(bees[p])
       /\ ant[p].type = "Eater" /\ ant[p].turnsEating = 3
       /\ Len(bees[p]) = 2 /\ bees[p][2].id \notin {beeActs[1], beeActs[2]}

----------------------------------------------------------------------------
(* Claims about the waves, checked under SpecSweep *)

\* The ids of the bees of the waves
Scheduled == UNION {{waves[t][i] : i \in 1 .. Len(waves[t])} : t \in DOMAIN waves}

\* The bees of the Hive that are in no wave: the waves that a later addWave
\* for the same turn replaced
Replaced == BeeIds(hiveBees) \ Scheduled

\* addWave makes the bees it creates the wave of its turn, in place of any
\* earlier wave of that turn, and adds them to the Hive; takeTurn takes out
\* of the Hive the bees of the wave of the turn and no other; a bee of a
\* replaced wave stays in the Hive whatever the step
C26_Step ==
  /\ nextBee' # nextBee =>
       /\ \E t \in DOMAIN waves' :
            /\ waves'[t] = [i \in 1 .. nextBee' - nextBee |-> nextBee + i]
            /\ \A u \in DOMAIN waves' \ {t} : u \in DOMAIN waves /\ waves'[u] = waves[u]
       /\ hiveBees' = hiveBees \o [i \in 1 .. nextBee' - nextBee |-> NewBee(nextBee + i)]
  /\ turn' # turn =>
       BeeIds(hiveBees) \ BeeIds(hiveBees') =
         {WaveOf(turn)[i] : i \in 1 .. Len(WaveOf(turn))}
  /\ \A id \in Replaced : id \in BeeIds(hiveBees') /\ id \notin Scheduled'

\* While the Hive holds a bee of a replaced wave the game is not won
C26_Counted == Replaced # {} => gameIsWon # "true"

\* C26: when addWave is called twice for the same turn t the later call
\* replaces the wave of t: invade at t releases exactly the bees of the last
\* call, and the bees of the earlier call stay in the Hive, are counted
\* among its bees and are released by no later turn.
C26_Overwrite == []C26_Counted /\ [][C26_Step]_vars

\* After the last turn the two bees of a first wave for turn 0 are still in
\* the Hive, and the bee of the second wave for turn 0 has left it
C26_Witness ==
  /\ turn = MaxSweepTurn
  /\ DOMAIN waves = {0} /\ waves[0] = <<3>>
  /\ BeeIds(hiveBees) = {1, 2}
  /\ gameIsWon # "true"

----------------------------------------------------------------------------
(* Claims about the outcome, checked under SpecCough *)

\* Once gameIsWon returns false it returns false after every command, and
\* the bees on the queen's Place stay as they are; once it returns true it
\* returns true after every command that is not addWave
C27_Step ==
  /\ gameIsWon = "false" =>
       /\ gameIsWon' = "false"
       /\ SubSeq(queenBees', 1, Len(queenBees)) = queenBees
  /\ gameIsWon = "true" /\ nextBee' = nextBee => gameIsWon' = "true"

\* C27: a decided outcome stays under deployAnt, removeAnt, boostAnt and
\* takeTurn: once gameIsWon returns false it returns false from then on (a
\* bee on the queen's Place never acts, moves or is damaged again), and
\* once it returns true it returns true from then on provided no new wave
\* is added (a bee then in the stomach of an Eater never comes back to the
\* board).
C27_Absorbing == [][C27_Step]_vars

\* The game is won while an Eater, two turns after it swallowed, still holds
\* the one bee of the game
C27_Witness ==
  /\ gameIsWon = "true" /\ nextBee = 1
  /\ \E c \in Cells :
       /\ ant[c].type = "Eater" /\ ant[c].turnsEating = 3
       /\ ant[c].stomach = <<NewBee(1)>>

----------------------------------------------------------------------------
(* Claims about boosts under a Guard, checked under Spec *)

\* The world without its Guards
Unguarded(w) == [w EXCEPT !.guard = [c \in Cells |-> NoAnt]]

\* The world with the boost of every Guard taken away
NoGuardBoost(w) ==
  [w EXCEPT !.guard = [c \in Cells |->
                         IF w.guard[c] = NoAnt THEN NoAnt
                         ELSE [w.guard[c] EXCEPT !.boost = "undefined"]]]

\* setBoost on a cell with a Guard and an ant gives the boost to the Guard
\* and changes nothing else; the ants' sweep does the same with and without
\* the boosts of the Guards
C29_Act ==
  /\ \A c \in Cells : \A b \in BoostNames :
       guard[c] # NoAnt /\ ant[c] # NoAnt =>
         setBoost(World, c, b) = [World EXCEPT !.guard[c].boost = b]
  /\ \A rolls \in [GrowerCells -> Rolls] :
       NoGuardBoost(antsAct(World, rolls)) = antsAct(NoGuardBoost(World), rolls)

\* A command on a cell that has and keeps a Guard leaves the ant under it
\* as it is; in a turn, a boosted Thrower or Scuba under a Guard does to the
\* bees what it does without the Guard, a StickyLeaf or IcyLeaf marks the
\* bee it hits, and a leaf that hits a bee is used up
C29_Step ==
  \A c \in Cells :
    guard[c] # NoAnt /\ ant[c] # NoAnt =>
      /\ turn' = turn /\ guard'[c] # NoAnt => ant'[c] = ant[c]
      /\ turn' # turn /\ ant[c].type \in {"Thrower", "Scuba"}
           /\ ant[c].boost # "undefined" =>
           LET rolls == [g \in GrowerCells |-> "nothing"]
               swept == antsAct(World, rolls)
               alone == antsAct(Unguarded(World), rolls)
               boost == ant[c].boost
               target == getClosestBee(bees, c, IF boost = "FlyingLeaf" THEN 5 ELSE 3, 0)
           IN /\ swept.bees = alone.bees
              /\ boost # "BugSpray" /\ target # NoPlace =>
                   /\ swept.ant[c] = [ant[c] EXCEPT !.boost = "undefined"]
                   /\ swept.bees[target] # bees[target]
                   /\ \A k \in 1 .. Len(swept.bees[target]) :
                        swept.bees[target][k].id = Head(bees[target]).id =>
                          swept.bees[target][k].status =
                            CASE boost = "StickyLeaf" -> "stuck"
                              [] boost = "IcyLeaf" -> "cold"
                              [] OTHER -> Head(bees[target]).status
              /\ boost # "BugSpray" /\ target = NoPlace => swept.ant[c] = ant[c]

\* C29: applyBoost on a cell with a Guard and a regular ant sets the boost of
\* the Guard and leaves the boost of the ant under it as it is; the boost of
\* a Guard changes no throw, and a boost the ant under the Guard already has
\* is used when that ant acts.
C29_GuardBoost == []C29_Act /\ [][C29_Step]_vars

\* After the second turn a Guard that holds a FlyingLeaf is unhurt over a
\* Thrower that has no boost left, with the bee it hit in the cell: the
\* Thrower's IcyLeaf kept the bee from stinging
C29_Witness ==
  /\ turn = 2
  /\ \E c \in Cells :
       /\ guard[c] = [GuardAnt EXCEPT !.boost = "FlyingLeaf"]
       /\ ant[c] = ThrowerAnt
       /\ bees[c] = <<[id |-> 1, armor |-> beeArmor - 1, status |-> "undefined"]>>

----------------------------------------------------------------------------
(* Games played to the end: one tunnel of two cells, dry, all water or with *)
(* water at the entrance; a driver that gives the Hive its waves before the *)
(* game, one call of addWave for a turn, deploys Throwers, Eaters, Scubas   *)
(* and Guards, removes and boosts up to a turn, from then on only takes     *)
(* turns, and stops once the outcome is told after a turn.                  *)

\* The driver of SpecLive schedules at most MaxLiveBees attackers.
MaxLiveBees == 2

\* The driver of SpecLive schedules waves for the turns 0 .. MaxLiveWaveTurn.
MaxLiveWaveTurn == 1

\* The driver of SpecLive deploys, removes and boosts while the turn is at
\* most MaxLiveCommandTurn.
MaxLiveCommandTurn == 1

\* The driver of SpecLive calls takeTurn at most MaxLiveTurn times.
MaxLiveTurn == 40

LiveSetups ==
  { [numTunnels |-> 1, tunnelLength |-> 2, moatFrequency |-> moat,
     beeArmor |-> 2, beeDamage |-> 1, startingFood |-> 9] : moat \in {0, 1, 2} }

InitLive == \E s \in LiveSetups : InitWith(s)

\* The 'turn' command has not told an outcome yet
Playing == turn = 0 \/ gameIsWon = "undefined"

\* The 'turn' command of the driver
LiveTurn == Playing /\ turn < MaxLiveTurn /\ TakeTurn

NextLive ==
  \/ \E attackTurn \in 0 .. MaxLiveWaveTurn, numBees \in 1 .. MaxLiveBees - nextBee :
       BeforeGame /\ attackTurn \notin DOMAIN waves /\ AddWave(attackTurn, numBees)
  \/ \E antType \in {"thrower", "Eater", "scuba", "GUARD"}, coords \in CellCoords :
       Playing /\ turn <= MaxLiveCommandTurn /\ DeployAnt(antType, coords)
  \/ \E coords \in CellCoords :
       Playing /\ turn <= MaxLiveCommandTurn /\ RemoveAnt(coords)
  \/ \E boostType \in {"StickyLeaf", "IcyLeaf"}, coords \in CellCoords :
       Playing /\ turn <= MaxLiveCommandTurn /\ BoostAnt(boostType, coords)
  \/ LiveTurn

\* A step of NextLive raises turn exactly when it is a step of LiveTurn, and
\* LiveTurn can be taken whenever its guard holds: the 'turn' command as the
\* turn counter shows it
LiveStep == Playing /\ turn < MaxLiveTurn /\ turn' = turn + 1

\* The driver goes on entering 'turn' until an outcome is told
SpecLive == InitLive /\ [][NextLive]_vars /\ WF_turn(LiveStep)

\* C28: with bees of armor and damage at least 1, every wave added before
\* the first takeTurn with one call of addWave for a turn, and only takeTurn
\* called from some turn on, gameIsWon eventually returns true or false and
\* keeps doing so: no board holds bees and ants in place forever.
C28_Decides == <>[](gameIsWon # "undefined")

\* After the eighth turn the bee of the wave of turn 1 stands on the queen's
\* Place, the two dry cells are empty and the food of two ants of cost 4 is
\* spent: the bee was held up four turns on its way
C28_Witness ==
  /\ turn = 8 /\ nextBee = 1 /\ DOMAIN waves = {1}
  /\ gameIsWon = "false" /\ queenBees = <<NewBee(1)>>
  /\ food = startingFood - 8
  /\ \A c \in Cells : ant[c] = NoAnt /\ guard[c] = NoAnt /\ ~isWater(c)

====
